---- MODULE Spec2Model ----
(***************************************************************************)
(* A model of the transition engine of looplab/fsm (src/fsm.go): the       *)
(* transition table and callback map built by NewFSM, and the Event(),     *)
(* Transition() and SetState() operations with their two locks, the        *)
(* staged transition closure, the callback phases and the contexts.        *)
(*                                                                         *)
(* Every call is a frame on the calling goroutine's stack; a callback is   *)
(* user code that runs inside a frame and may call back into the machine,  *)
(* which pushes a nested frame on the same stack.                          *)
(***************************************************************************)
EXTENDS Integers, Sequences, FiniteSets, TLC

\* Bound on the number of calls (top-level or nested) started in a behaviour.
MaxCalls == 3

\* Bound on the number of operations (Cancel, Async, a write of e.Err, a call
\* into the machine) that the callbacks perform in a behaviour.
MaxOps == 2

\* The same two bounds for behaviours in which two goroutines use the machine.
MaxCallsC == 2
MaxOpsC == 1

Threads == {"t1", "t2"}

None == "none"

-----------------------------------------------------------------------------
(* Callback types, src/fsm.go:503-509 *)

callbackNone == 0
callbackBeforeEvent == 1
callbackLeaveState == 2
callbackEnterState == 3
callbackAfterEvent == 4

\* eKey{event, src}
eKey(event, src) == <<event, src>>

\* cKey{target, callbackType}
cKey(target, callbackType) == [target |-> target, callbackType |-> callbackType]

-----------------------------------------------------------------------------
(* Inputs of NewFSM: event descriptions and callback names.                *)

EventDesc(name, src, dst) == [Name |-> name, Src |-> src, Dst |-> dst]

\* The table of the model: two descriptions sharing the event name "run", one
\* description with two sources, and one whose destination is its source.
EventsA ==
    << EventDesc("run", <<"start">>, "end"),
       EventDesc("run", <<"end">>, "finished"),
       EventDesc("reset", <<"end", "finished">>, "start"),
       EventDesc("stay", <<"start">>, "start") >>

EventsChoices == {EventsA}

\* A table that never leads back to the initial state.
EventsOneWay ==
    << EventDesc("run", <<"start">>, "end"),
       EventDesc("run", <<"end">>, "finished"),
       EventDesc("stay", <<"finished">>, "finished") >>

\* The table of the two-goroutine behaviours: two states, one event each way.
EventsB ==
    << EventDesc("run", <<"start">>, "end"),
       EventDesc("reset", <<"end">>, "start") >>

\* A table in which "end" is the name of a state and of an event.
EventsBoth ==
    << EventDesc("run", <<"start">>, "end"),
       EventDesc("end", <<"end">>, "start") >>

\* event names a caller may pass to Event(); "bogus" is in no table
EventNames == {"run", "reset", "stay", "bogus"}

\* the states of the tables, and "limbo", which is in no table
StateNames == {"start", "end", "finished", "limbo"}

\* states a caller may pass to SetState()
SetStateArgs == {"finished", "limbo"}

\* A callback name is the pair of its prefix and the rest of the string.
CallbackName(prefix, rest) == <<prefix, rest>>

HasPrefix(name, prefix) == name[1] = prefix
TrimPrefix(name, prefix) == name[2]

RECURSIVE allEventsOf(_, _)
allEventsOf(events, i) ==
    IF i > Len(events) THEN {}
    ELSE {events[i].Name} \cup allEventsOf(events, i + 1)

RECURSIVE allStatesOf(_, _)
allStatesOf(events, i) ==
    IF i > Len(events) THEN {}
    ELSE (IF Len(events[i].Src) > 0
          THEN {events[i].Src[j] : j \in 1..Len(events[i].Src)} \cup {events[i].Dst}
          ELSE {})
         \cup allStatesOf(events, i + 1)

\* f.transitions[eKey{e.Name, src}] = e.Dst for every src, in order
RECURSIVE putSrcs(_, _, _)
putSrcs(m, e, j) ==
    IF j > Len(e.Src) THEN m
    ELSE putSrcs([k \in DOMAIN m \cup {eKey(e.Name, e.Src[j])} |->
                     IF k = eKey(e.Name, e.Src[j]) THEN e.Dst ELSE m[k]],
                 e, j + 1)

RECURSIVE buildTransitions(_, _, _)
buildTransitions(m, events, i) ==
    IF i > Len(events) THEN m
    ELSE buildTransitions(putSrcs(m, events[i], 1), events, i + 1)

NewFSM_transitions(events) == buildTransitions(<<>>, events, 1)

\* a variant of callbackKeyOf that takes a bare name for an event first
callbackKeyOf_eventFirst(name, allEvents, allStates) ==
    LET target == TrimPrefix(name, name[1]) IN
    IF HasPrefix(name, "before_") THEN
        IF target = "event" THEN cKey("", callbackBeforeEvent)
        ELSE IF target \in allEvents THEN cKey(target, callbackBeforeEvent)
        ELSE cKey(target, callbackNone)
    ELSE IF HasPrefix(name, "leave_") THEN
        IF target = "state" THEN cKey("", callbackLeaveState)
        ELSE IF target \in allStates THEN cKey(target, callbackLeaveState)
        ELSE cKey(target, callbackNone)
    ELSE IF HasPrefix(name, "enter_") THEN
        IF target = "state" THEN cKey("", callbackEnterState)
        ELSE IF target \in allStates THEN cKey(target, callbackEnterState)
        ELSE cKey(target, callbackNone)
    ELSE IF HasPrefix(name, "after_") THEN
        IF target = "event" THEN cKey("", callbackAfterEvent)
        ELSE IF target \in allEvents THEN cKey(target, callbackAfterEvent)
        ELSE cKey(target, callbackNone)
    ELSE
        IF target \in allEvents THEN cKey(target, callbackAfterEvent)
        ELSE IF target \in allStates THEN cKey(target, callbackEnterState)
        ELSE cKey(target, callbackNone)

\* the switch of NewFSM that parses one callback name into a cKey
callbackKeyOf(name, allEvents, allStates) ==
    LET target == TrimPrefix(name, name[1]) IN
    IF HasPrefix(name, "before_") THEN
        IF target = "event" THEN cKey("", callbackBeforeEvent)
        ELSE IF target \in allEvents THEN cKey(target, callbackBeforeEvent)
        ELSE cKey(target, callbackNone)
    ELSE IF HasPrefix(name, "leave_") THEN
        IF target = "state" THEN cKey("", callbackLeaveState)
        ELSE IF target \in allStates THEN cKey(target, callbackLeaveState)
        ELSE cKey(target, callbackNone)
    ELSE IF HasPrefix(name, "enter_") THEN
        IF target = "state" THEN cKey("", callbackEnterState)
        ELSE IF target \in allStates THEN cKey(target, callbackEnterState)
        ELSE cKey(target, callbackNone)
    ELSE IF HasPrefix(name, "after_") THEN
        IF target = "event" THEN cKey("", callbackAfterEvent)
        ELSE IF target \in allEvents THEN cKey(target, callbackAfterEvent)
        ELSE cKey(target, callbackNone)
    ELSE
        IF target \in allStates THEN cKey(target, callbackEnterState)
        ELSE IF target \in allEvents THEN cKey(target, callbackAfterEvent)
        ELSE cKey(target, callbackNone)

\* the keys of f.callbacks after the loop over the callbacks map
NewFSM_callbacks(events, names) ==
    LET allEvents == allEventsOf(events, 1)
        allStates == allStatesOf(events, 1)
    IN  {k \in {callbackKeyOf(n, allEvents, allStates) : n \in names} :
            k.callbackType # callbackNone}

CallbacksNone == {}

\* every callback of every event and state, and the four generic ones
CallbacksAll ==
    {CallbackName("before_", "event"), CallbackName("leave_", "state"),
     CallbackName("enter_", "state"), CallbackName("after_", "event")}
    \cup {CallbackName(p, x) : p \in {"before_", "after_"}, x \in EventNames}
    \cup {CallbackName(p, x) : p \in {"leave_", "enter_"}, x \in StateNames}

\* a generic before callback, the two short forms, and a name that matches nothing
CallbacksMixed ==
    {CallbackName("before_", "event"), CallbackName("", "end"),
     CallbackName("", "run"), CallbackName("before_", "nothing")}

CallbacksChoices == {CallbacksNone, CallbacksMixed, CallbacksAll}

\* the four generic callbacks
CallbacksGeneric ==
    {CallbackName("before_", "event"), CallbackName("leave_", "state"),
     CallbackName("enter_", "state"), CallbackName("after_", "event")}

\* the short forms, one of them the name of a state and of an event in EventsBoth,
\* and a bare name that is neither
CallbacksShort ==
    {CallbackName("", "end"), CallbackName("", "run"), CallbackName("", "nothing"),
     CallbackName("before_", "event"), CallbackName("leave_", "state")}

\* full names, of which some name an event where a state is due, or a state where
\* an event is due, or nothing of the table
CallbacksCrossed ==
    {CallbackName("before_", "run"), CallbackName("after_", "end"),
     CallbackName("leave_", "start"), CallbackName("enter_", "end"),
     CallbackName("before_", "start"), CallbackName("after_", "finished"),
     CallbackName("leave_", "run"), CallbackName("enter_", "limbo")}

\* a generic leave callback and a callback for entering each state
CallbacksEnter ==
    {CallbackName("leave_", "state"), CallbackName("enter_", "start"),
     CallbackName("enter_", "end"), CallbackName("enter_", "finished")}

-----------------------------------------------------------------------------
(* The state of one machine and of the goroutines that use it.             *)

\* the keys and values of context.WithValue
CtxKeys == {"key1", "key2"}
CtxVals == {"value1", "value2"}

VARIABLES
    current,                    \* f.current
    transitions,                \* f.transitions, eKey -> destination
    callbacks,                  \* the keys of f.callbacks
    transition,                 \* f.transition: nilFunc or the staged closure
    processNoTransitionStates,  \* f.processNoTransitionStates
    eventMu,                    \* f.eventMu: TRUE while locked
    stateMu,                    \* f.stateMu: readers, writer, waiting writers
    stack,                      \* per goroutine, the frames of its calls
    ncalls,                     \* calls started so far
    nops,                       \* operations performed by callbacks so far
    ret,                        \* the call that returned last
    active,                     \* the goroutines that use the machine
    outstanding,                \* an Event() returned AsyncError and no Transition()
                                \* has completed that transition since
    fatal,                      \* a runtime fault was raised (unlock of unlocked mutex)
    uctx,                       \* a context, and the context uncancelContext made of it
    cbs,                        \* a Callbacks value and the result of its validate()
    callbackNames               \* the keys of the callbacks map passed to NewFSM

vars == <<current, transitions, callbacks, transition, processNoTransitionStates,
          eventMu, stateMu, stack, ncalls, nops, ret, active, outstanding, fatal,
          uctx, cbs, callbackNames>>

\* the fields of the Event struct handed to the callbacks
EventStruct(event, src, dst, err, canceled, async) ==
    [Event |-> event, Src |-> src, Dst |-> dst, Err |-> err,
     canceled |-> canceled, async |-> async]

\* the closure returned by transitionFunc(ctx, async): it captures e, ctx and async
\* ctxErr: the closure's own context was cancelled through its cancel function;
\* parentErr: the context made at line 337 is done; callerErr: the context the
\* caller passed to Event() is done
transitionFunc(id, e, ctxErr, async) ==
    [set |-> TRUE, id |-> id, e |-> e, ctxErr |-> ctxErr, async |-> async,
     parentErr |-> FALSE, callerErr |-> FALSE, log |-> <<>>]

\* f.transition == nil
nilFunc ==
    [set |-> FALSE, id |-> 0, e |-> EventStruct("", "", "", "nil", FALSE, FALSE),
     ctxErr |-> FALSE, async |-> FALSE, parentErr |-> FALSE, callerErr |-> FALSE,
     log |-> <<>>]

\* errors a callback may put in e.Err
ErrVals == {"e1", "e2"}

\* what a call leaves behind for the calls of other goroutines that were running
\* when it returned
NoPeer ==
    [op |-> None, id |-> 0, event |-> "", pre |-> "", preTr |-> FALSE, path |-> "",
     res |-> "", nlog |-> 0, ops |-> {}, ctxErr |-> FALSE]

Frame(op, id, event, arg, ctxErr) ==
    [op |-> op, id |-> id,
     pc |-> IF op = "SetState" THEN "wlock" ELSE "lock",
     inh |-> FALSE,            \* inside a callback
     event |-> event, arg |-> arg,
     src |-> "", dst |-> "", Err |-> "nil", canceled |-> FALSE, async |-> FALSE,
     ctxErr |-> ctxErr,        \* ctx.Err() != nil for the context of this call
     unlocked |-> FALSE,       \* the local variable unlocked of Event()
     rheld |-> FALSE,          \* this call holds stateMu.RLock
     rdropped |-> FALSE,       \* RUnlock done with a deferred RLock outstanding
     casync |-> FALSE,         \* the async parameter of the closure being run
     eid |-> id,               \* the call whose closure is being run
     path |-> "",              \* which branch the call took
     res |-> "", resErr |-> "nil", resState |-> "",
     log |-> <<>>,             \* the callback keys this call invoked, in order
     ops |-> {},               \* what the callbacks of this call did
     cancelAt |-> 0,           \* Len(log) when a callback first called Cancel
     pre |-> current,          \* f.current when the call was made
     preTr |-> transition.set, \* a closure was stored when the call was made
     preAsync |-> transition.set /\ transition.async,
     preEvent |-> transition.e.Event,   \* the event and destination that were staged
     preDst |-> transition.e.Dst,
     cur |-> "", trAfter |-> FALSE, depth |-> 0,
     cctx |-> FALSE,           \* the closure found its own context cancelled
     cparent |-> FALSE,        \* the context of line 337 was done when the closure ran
     ccaller |-> FALSE,        \* the caller's context was done when the closure ran
     avail |-> <<>>,           \* the slice returned by AvailableTransitions()
     seen |-> FALSE,           \* another goroutine ran a callback after this call's first
     seenEarly |-> FALSE,      \* ... a before/leave callback, before this call committed
     interleaved |-> FALSE,    \* this call ran a callback after seen was set
     peer |-> NoPeer,          \* the last Event() call of another goroutine that
                               \* returned while this call was running
     setTo |-> None,           \* the call follows a SetState(setTo) that just returned
     lastErr |-> "nil",        \* the value a callback of this call stored in e.Err last
     cancelArg |-> None,       \* the error given to the last e.Cancel(err) of this call
     setErr |-> "nil",         \* the value a callback of this call assigned to e.Err last
     setAfter |-> FALSE,       \* e.Err was assigned after that e.Cancel(err)
     child |-> NoPeer,         \* the last call made by a callback of this call
     elog |-> <<>>]            \* the log of the Event() call whose closure is being run

NoRet == [Frame(None, 0, "", "", FALSE) EXCEPT !.pre = "", !.preTr = FALSE,
                                                 !.preAsync = FALSE]

top(t) == stack[t][Len(stack[t])]
SetTop(t, f) == [stack EXCEPT ![t][Len(stack[t])] = f]
Pop(t) == [stack EXCEPT ![t] = SubSeq(@, 1, Len(@) - 1)]

\* a variant of retPc that skips the deferred f.stateMu.RLock()
retPc_direct(f) == "ret"

\* the pc from which a call that decided its result runs its deferred calls
retPc(f) == IF f.rdropped THEN "retRLock" ELSE "ret"

\* what a call that returned leaves behind for the calls that were running
Summary(f) ==
    [op |-> f.op, id |-> f.id, event |-> f.event, pre |-> f.pre,
     preTr |-> f.preTr, path |-> f.path, res |-> f.res,
     nlog |-> Len(f.log), ops |-> f.ops, ctxErr |-> f.ctxErr]

\* the stack of goroutine t after the call of frame f returned: the callback that
\* made the call, if any, goes on
PopNote(t, f) ==
    LET st == Pop(t)[t]
    IN  IF st = <<>> THEN st
        ELSE IF f.res = "panic"
        \* the panic of the call unwinds the callback that made it, and the call
        \* that runs this callback
        THEN [st EXCEPT ![Len(st)] = [@ EXCEPT !.child = Summary(f), !.inh = FALSE,
                                               !.pc = retPc(st[Len(st)]),
                                               !.res = "panic"]]
        ELSE [st EXCEPT ![Len(st)] = [@ EXCEPT !.child = Summary(f)]]

\* sync.RWMutex: a reader is admitted when no writer holds or waits
CanRLock == ~stateMu.writer /\ stateMu.waiting = 0
\* a writer is admitted when nobody holds the lock
CanLock == ~stateMu.writer /\ stateMu.readers = 0

Phases == {"before1", "before2", "leave1", "leave2",
           "enter1", "enter2", "after1", "after2"}

\* a variant of keyAt that looks the generic before callback up first
keyAt_genericFirst(f) ==
    CASE f.pc = "before1" -> cKey("", callbackBeforeEvent)
      [] f.pc = "before2" -> cKey(f.event, callbackBeforeEvent)
      [] f.pc = "leave1"  -> cKey(current, callbackLeaveState)
      [] f.pc = "leave2"  -> cKey("", callbackLeaveState)
      [] f.pc = "enter1"  -> cKey(current, callbackEnterState)
      [] f.pc = "enter2"  -> cKey("", callbackEnterState)
      [] f.pc = "after1"  -> cKey(f.event, callbackAfterEvent)
      [] f.pc = "after2"  -> cKey("", callbackAfterEvent)

\* the key looked up in f.callbacks at each position of the four callback functions
keyAt(f) ==
    CASE f.pc = "before1" -> cKey(f.event, callbackBeforeEvent)
      [] f.pc = "before2" -> cKey("", callbackBeforeEvent)
      [] f.pc = "leave1"  -> cKey(current, callbackLeaveState)
      [] f.pc = "leave2"  -> cKey("", callbackLeaveState)
      [] f.pc = "enter1"  -> cKey(current, callbackEnterState)
      [] f.pc = "enter2"  -> cKey("", callbackEnterState)
      [] f.pc = "after1"  -> cKey(f.event, callbackAfterEvent)
      [] f.pc = "after2"  -> cKey("", callbackAfterEvent)

\* where control goes when a callback position is passed without an early return
nextPc(pc) ==
    CASE pc = "before1" -> "before2"
      [] pc = "before2" -> "decide"
      [] pc = "leave1"  -> "leave2"
      [] pc = "leave2"  -> "runlock"
      [] pc = "enter1"  -> "enter2"
      [] pc = "enter2"  -> "after1"
      [] pc = "after1"  -> "after2"
      [] pc = "after2"  -> "finish"

\* a context with the values vals, with or without a deadline, cancelled or not,
\* of which uncancelContext has made no context yet
Context(vals, deadline, done) ==
    [vals |-> vals, deadline |-> deadline, done |-> done,
     made |-> FALSE,           \* uncancelContext(ctx) was called
     doneAtCall |-> FALSE,     \* ... with ctx done already
     cancelled |-> FALSE]      \* the cancel function it returned was called

\* context.Background()
Background == Context([k \in CtxKeys |-> None], FALSE, FALSE)

\* an empty Callbacks value that was not validated
NoCallbacks == [cs |-> <<>>, err |-> "unset", each |-> <<>>]

Init ==
    /\ current = "start"
    /\ \E events \in EventsChoices, names \in CallbacksChoices :
          /\ transitions = NewFSM_transitions(events)
          /\ callbacks = NewFSM_callbacks(events, names)
          /\ callbackNames = names
    /\ transition = nilFunc
    /\ processNoTransitionStates = FALSE
    /\ eventMu = FALSE
    /\ stateMu = [readers |-> 0, writer |-> FALSE, waiting |-> 0]
    /\ stack = [t \in Threads |-> <<>>]
    /\ ncalls = 0
    /\ nops = 0
    /\ ret = NoRet
    /\ active = {"t1"}
    /\ outstanding = FALSE
    /\ fatal = FALSE
    /\ uctx = Background
    /\ cbs = NoCallbacks

-----------------------------------------------------------------------------
(* Calls.  A call is made from the top level of a goroutine or from inside *)
(* a callback.                                                             *)

\* the bounds in force: those of one goroutine, or those of two
CallBound == IF active = Threads THEN MaxCallsC ELSE MaxCalls
OpBound == IF active = Threads THEN MaxOpsC ELSE MaxOps

CanCall(t) ==
    /\ t \in active
    /\ ncalls < CallBound
    /\ \/ stack[t] = <<>>
       \/ /\ stack[t] # <<>>
          /\ top(t).inh
          /\ nops < OpBound

Push(t, fr) ==
    /\ stack' = [stack EXCEPT ![t] =
                    (IF stack[t] = <<>> THEN <<>>
                     ELSE [stack[t] EXCEPT ![Len(stack[t])] =
                              [top(t) EXCEPT !.ops = top(t).ops \cup {"call"}]])
                    \o <<fr>>]
    /\ ncalls' = ncalls + 1
    /\ nops' = IF stack[t] = <<>> THEN nops ELSE nops + 1

\* a caller invokes f.Event(ctx, event)
CallEvent(t) ==
    /\ CanCall(t)
    /\ \E event \in EventNames \cup {ekey[1] : ekey \in DOMAIN transitions} :
          Push(t, [Frame("Event", ncalls + 1, event, "", FALSE) EXCEPT
                      !.setTo = IF ret.op = "SetState" THEN ret.arg ELSE None])
    /\ ret' = NoRet
    /\ UNCHANGED <<current, transitions, callbacks, uctx, cbs, callbackNames, transition,
                   processNoTransitionStates, eventMu, stateMu, active, outstanding, fatal>>

\* a caller invokes f.Transition()
CallTransition(t) ==
    /\ CanCall(t)
    /\ Push(t, [Frame("Transition", ncalls + 1, "", "", FALSE) EXCEPT
                   !.setTo = IF ret.op = "SetState" THEN ret.arg ELSE None])
    /\ ret' = NoRet
    /\ UNCHANGED <<current, transitions, callbacks, uctx, cbs, callbackNames, transition,
                   processNoTransitionStates, eventMu, stateMu, active, outstanding, fatal>>

\* a caller invokes f.SetState(state): stateMu.Lock() is requested
CallSetState(t) ==
    /\ CanCall(t)
    /\ \E state \in SetStateArgs :
          Push(t, Frame("SetState", ncalls + 1, "", state, FALSE))
    /\ stateMu' = [stateMu EXCEPT !.waiting = @ + 1]
    /\ ret' = NoRet
    /\ UNCHANGED <<current, transitions, callbacks, uctx, cbs, callbackNames, transition,
                   processNoTransitionStates, eventMu, active, outstanding, fatal>>

\* a variant of SetState_value that moves the machine only to states of the table
SetState_value_tableOnly(state) ==
    IF \E k \in DOMAIN transitions : k[2] = state \/ transitions[k] = state
    THEN state ELSE current

\* line 230: the value SetState stores in f.current
SetState_value(state) == state

\* a variant of SetState_transition that drops the stored closure
SetState_transition_cleared(c) == nilFunc

\* lines 228-232: SetState() does not touch f.transition
SetState_transition(c) == c

\* SetState: the lock is granted, f.current = state, deferred Unlock
SetState(t) ==
    /\ t \in active
    /\ stack[t] # <<>>
    /\ top(t).op = "SetState"
    /\ top(t).pc = "wlock"
    /\ CanLock
    /\ current' = SetState_value(top(t).arg)
    /\ stateMu' = [stateMu EXCEPT !.waiting = @ - 1]
    /\ stack' = [stack EXCEPT ![t] = PopNote(t, top(t))]
    /\ transition' = SetState_transition(transition)
    /\ ret' = [top(t) EXCEPT !.pc = "returned", !.res = "nil", !.cur = current',
                             !.trAfter = transition'.set, !.depth = Len(stack[t])]
    /\ UNCHANGED <<nops, transitions, callbacks, uctx, cbs, callbackNames, processNoTransitionStates,
                   eventMu, ncalls, active, outstanding, fatal>>

\* f.SetProcessNoTransitionStates(process): a plain write
SetProcessNoTransitionStates(t) ==
    /\ t \in active
    /\ stack[t] = <<>>
    /\ ncalls < CallBound
    /\ \E process \in BOOLEAN :
          /\ process # processNoTransitionStates
          /\ processNoTransitionStates' = process
    /\ ncalls' = ncalls + 1
    /\ ret' = NoRet
    /\ UNCHANGED <<nops, current, transitions, callbacks, uctx, cbs, callbackNames, transition, eventMu, stateMu,
                   stack, active, outstanding, fatal>>

-----------------------------------------------------------------------------
(* Event(), src/fsm.go:307-411                                             *)

Running(t, op, pc) ==
    /\ t \in active
    /\ stack[t] # <<>>
    /\ top(t).op \in op
    /\ top(t).pc = pc
    /\ ~top(t).inh

eOf(f) == EventStruct(f.event, f.src, f.dst, f.Err, f.canceled, f.async)

\* f.eventMu.Unlock(): unlocking a mutex that is not locked is a runtime fault
Unlock_eventMu ==
    /\ eventMu' = FALSE
    /\ fatal' = (fatal \/ ~eventMu)

\* a variant of eventMuAvailable under which Lock() never waits
eventMuAvailable_always == TRUE

\* sync.Mutex: Lock() returns only when the mutex is not held
eventMuAvailable == ~eventMu

\* f.eventMu.Lock(), the first statement of Event() and of Transition()
LockEventMu(t) ==
    /\ Running(t, {"Event", "Transition"}, "lock")
    /\ eventMuAvailable
    /\ eventMu' = TRUE
    /\ stack' = SetTop(t, [top(t) EXCEPT
                              !.pc = IF top(t).op = "Event" THEN "rlock" ELSE "do"])
    /\ ret' = NoRet
    /\ UNCHANGED <<nops, current, transitions, callbacks, uctx, cbs, callbackNames, transition,
                   processNoTransitionStates, stateMu, ncalls, active, outstanding, fatal>>

\* f.stateMu.RLock() at line 320
Event_RLock(t) ==
    /\ Running(t, {"Event"}, "rlock")
    /\ CanRLock
    /\ stateMu' = [stateMu EXCEPT !.readers = @ + 1]
    /\ stack' = SetTop(t, [top(t) EXCEPT !.pc = "lookup", !.rheld = TRUE])
    /\ ret' = NoRet
    /\ UNCHANGED <<nops, current, transitions, callbacks, uctx, cbs, callbackNames, transition,
                   processNoTransitionStates, eventMu, ncalls, active, outstanding, fatal>>

\* a variant of inTransition that never sees the stored closure
inTransition_never == FALSE

\* line 323: f.transition != nil
inTransition == transition.set

\* a variant of lookupDst that takes the event name for the destination
lookupDst_event(event) == event

\* a variant of lookupDst that resolves the event without its source state
lookupDst_anySrc(event) ==
    transitions[CHOOSE ekey \in DOMAIN transitions : ekey[1] = event]

\* line 327: dst of f.transitions[eKey{event, f.current}]
lookupDst(event) == transitions[eKey(event, current)]

\* a variant of eventKnown that only accepts the current source state
eventKnown_currentOnly(event) ==
    \E ekey \in DOMAIN transitions : ekey[1] = event /\ ekey[2] = current

\* lines 329-333: the scan of all keys for the event name
eventKnown(event) == \E ekey \in DOMAIN transitions : ekey[1] = event

\* lines 323-339: the pending check, the table lookup and the construction of e
Event_lookup(t) ==
    /\ Running(t, {"Event"}, "lookup")
    /\ LET f == top(t)
           event == f.event
       IN  stack' = SetTop(t,
             IF inTransition THEN
                 [f EXCEPT !.pc = "ret", !.res = "InTransitionError", !.path = "intransition"]
             ELSE IF eKey(event, current) \notin DOMAIN transitions THEN
                 IF eventKnown(event)
                 THEN [f EXCEPT !.pc = "ret", !.res = "InvalidEventError",
                                !.resState = current, !.path = "miss"]
                 ELSE [f EXCEPT !.pc = "ret", !.res = "UnknownEventError", !.path = "miss"]
             ELSE
                 [f EXCEPT !.pc = "before1", !.src = current, !.dst = lookupDst(event)])
    /\ ret' = NoRet
    /\ UNCHANGED <<nops, current, transitions, callbacks, uctx, cbs, callbackNames, transition,
                   processNoTransitionStates, eventMu, stateMu, ncalls, active, outstanding, fatal>>

\* a variant of noTransition that never takes the branch
noTransition_never(f) == FALSE

\* a variant of noTransition that does not look at the flag
noTransition_flagIgnored(f) == current = f.dst

\* line 346: f.current == dst && !f.processNoTransitionStates
noTransition(f) == current = f.dst /\ ~processNoTransitionStates

\* lines 346-383: the no-transition branch, or staging of the closure
Event_decide(t) ==
    /\ Running(t, {"Event"}, "decide")
    /\ LET f == top(t) IN
       IF noTransition(f) THEN
           /\ stateMu' = [stateMu EXCEPT !.readers = @ - 1]
           /\ Unlock_eventMu
           /\ stack' = SetTop(t, [f EXCEPT !.pc = "after1", !.path = "notransition",
                                           !.rheld = FALSE, !.rdropped = TRUE,
                                           !.unlocked = TRUE])
           /\ UNCHANGED transition
       ELSE
           /\ transition' = transitionFunc(f.id, eOf(f), FALSE, FALSE)
           /\ stack' = SetTop(t, [f EXCEPT !.pc = "leave1", !.path = "staged"])
           /\ UNCHANGED <<stateMu, eventMu, fatal>>
    /\ ret' = NoRet
    /\ UNCHANGED <<nops, current, transitions, callbacks, uctx, cbs, callbackNames, processNoTransitionStates,
                   ncalls, active, outstanding>>

\* line 403: f.stateMu.RUnlock() with the deferred RLock
Event_RUnlock(t) ==
    /\ Running(t, {"Event"}, "runlock")
    /\ stateMu' = [stateMu EXCEPT !.readers = @ - 1]
    /\ stack' = SetTop(t, [top(t) EXCEPT !.pc = "do", !.rheld = FALSE, !.rdropped = TRUE])
    /\ ret' = NoRet
    /\ UNCHANGED <<nops, current, transitions, callbacks, uctx, cbs, callbackNames, transition,
                   processNoTransitionStates, eventMu, ncalls, active, outstanding, fatal>>

-----------------------------------------------------------------------------
(* The callback functions, src/fsm.go:441-501, and what a callback may do  *)
(* with the Event struct it is handed.                                     *)

InPhase(t, pcs) ==
    /\ t \in active
    /\ stack[t] # <<>>
    /\ top(t).pc \in pcs

\* if fn, ok := f.callbacks[key]; ok { fn(ctx, e) }: enter the callback, or pass
lookupAndCall(f) ==
    IF keyAt(f) \in callbacks
    THEN [f EXCEPT !.inh = TRUE, !.log = Append(@, keyAt(f)),
                   !.interleaved = @ \/ f.seen]
    ELSE [f EXCEPT !.pc = nextPc(f.pc)]

\* the stacks after goroutine t replaced its top frame by g; when g has just
\* entered a callback, the Event() calls of the other goroutines that have
\* already run a callback take note of it
SetTopCb(t, g) ==
    LET st == SetTop(t, g)
        entered == g.inh /\ ~top(t).inh
        early == g.pc \in {"before1", "before2", "leave1", "leave2"}
    IN  IF ~entered THEN st
        ELSE [u \in Threads |->
                IF u = t THEN st[u]
                ELSE [i \in 1..Len(st[u]) |->
                        IF st[u][i].op = "Event" /\ st[u][i].log # <<>>
                        THEN [st[u][i] EXCEPT
                                !.seen = TRUE,
                                !.seenEarly = @ \/ (early /\ ~st[u][i].unlocked
                                                     /\ st[u][i].res = "")]
                        ELSE st[u][i]]]

\* the callback returned and nothing made the function return early
passOn(f) == [f EXCEPT !.inh = FALSE, !.pc = nextPc(f.pc)]

returnErr(f, res) ==
    [f EXCEPT !.inh = FALSE, !.pc = retPc(f), !.res = res, !.resErr = f.Err]

beforeEventCallbacks(t) ==
    /\ InPhase(t, {"before1", "before2"})
    /\ LET f == top(t) IN
       stack' = SetTopCb(t,
          IF ~f.inh THEN lookupAndCall(f)
          ELSE IF f.canceled THEN [returnErr(f, "CanceledError") EXCEPT !.path = "canceled"]
          ELSE passOn(f))
    /\ ret' = NoRet
    /\ UNCHANGED <<nops, current, transitions, callbacks, uctx, cbs, callbackNames, transition,
                   processNoTransitionStates, eventMu, stateMu, ncalls, active, outstanding, fatal>>

\* a variant of clearedOnCancel that leaves the staged closure in place
clearedOnCancel_kept == transition

\* line 387: f.transition = nil
clearedOnCancel == nilFunc

\* a variant of stagedAsync that forgets to store the closure
stagedAsync_dropped(f) == nilFunc

\* lines 392-396: uncancelContext(ctx) gives a context that is not cancelled, and
\* f.transition = transitionFunc(ctx, true)
stagedAsync(f) ==
    [transitionFunc(f.id, eOf(f), FALSE, TRUE) EXCEPT !.parentErr = f.ctxErr,
                                                      !.callerErr = f.ctxErr]

\* leaveStateCallbacks and the handling of its error in Event(), lines 385-400
leaveStateCallbacks(t) ==
    /\ InPhase(t, {"leave1", "leave2"})
    /\ LET f == top(t) IN
       IF ~f.inh THEN
           /\ stack' = SetTopCb(t, lookupAndCall(f))
           /\ UNCHANGED transition
       ELSE IF f.canceled THEN
           /\ transition' = clearedOnCancel
           /\ stack' = SetTop(t, [returnErr(f, "CanceledError") EXCEPT !.path = "canceled"])
       ELSE IF f.async THEN
           /\ transition' = stagedAsync(f)
           /\ stack' = SetTop(t, [returnErr(f, "AsyncError") EXCEPT !.path = "async"])
       ELSE
           /\ stack' = SetTop(t, passOn(f))
           /\ UNCHANGED transition
    /\ ret' = NoRet
    /\ UNCHANGED <<nops, current, transitions, callbacks, uctx, cbs, callbackNames, processNoTransitionStates,
                   eventMu, stateMu, ncalls, active, outstanding, fatal>>

enterStateCallbacks(t) ==
    /\ InPhase(t, {"enter1", "enter2"})
    /\ LET f == top(t) IN
       stack' = SetTopCb(t, IF ~f.inh THEN lookupAndCall(f) ELSE passOn(f))
    /\ ret' = NoRet
    /\ UNCHANGED <<nops, current, transitions, callbacks, uctx, cbs, callbackNames, transition,
                   processNoTransitionStates, eventMu, stateMu, ncalls, active, outstanding, fatal>>

afterEventCallbacks(t) ==
    /\ InPhase(t, {"after1", "after2"})
    /\ LET f == top(t) IN
       stack' = SetTopCb(t, IF ~f.inh THEN lookupAndCall(f) ELSE passOn(f))
    /\ ret' = NoRet
    /\ UNCHANGED <<nops, current, transitions, callbacks, uctx, cbs, callbackNames, transition,
                   processNoTransitionStates, eventMu, stateMu, ncalls, active, outstanding, fatal>>

InCallback(t) ==
    /\ t \in active
    /\ stack[t] # <<>>
    /\ top(t).inh

earlyPhase(f) == f.pc \in {"before1", "before2", "leave1", "leave2"}

\* a variant of Cancel_Err that keeps an error stored earlier
Cancel_Err_kept(old, err) == IF old # "nil" THEN old ELSE err

\* lines 89-91: if len(err) > 0 { ctx.Err = err[0] }, "nil" for no argument
Cancel_Err(old, err) == IF err # "nil" THEN err ELSE old

\* e.Cancel(err...): sets canceled and, when an error is given, e.Err.
\* The flag is read only after a before or leave callback, where Cancel is
\* documented to be called; later calls of it are not modelled.
Cancel(t) ==
    /\ InCallback(t)
    /\ earlyPhase(top(t))
    /\ nops < OpBound
    /\ nops' = nops + 1
    /\ \E err \in ErrVals \cup {"nil"} :
          stack' = SetTop(t, [top(t) EXCEPT
                      !.canceled = TRUE,
                      !.cancelAt = IF top(t).canceled THEN @ ELSE Len(top(t).log),
                      !.Err = Cancel_Err(@, err),
                      !.lastErr = IF err # "nil" THEN err ELSE @,
                      !.cancelArg = IF err # "nil" THEN err ELSE @,
                      !.setAfter = IF err # "nil" THEN FALSE ELSE @,
                      !.ops = @ \cup {"cancel"}])
    /\ ret' = NoRet
    /\ UNCHANGED <<current, transitions, callbacks, uctx, cbs, callbackNames, transition,
                   processNoTransitionStates, eventMu, stateMu, ncalls, active, outstanding, fatal>>

\* e.Async().  The flag is read only after a leave callback; a before callback
\* may set it too, later calls of it are not modelled.
Async(t) ==
    /\ InCallback(t)
    /\ earlyPhase(top(t))
    /\ nops < OpBound
    /\ nops' = nops + 1
    /\ ~top(t).async
    /\ stack' = SetTop(t, [top(t) EXCEPT
                      !.async = TRUE,
                      !.ops = @ \cup {IF top(t).pc \in {"leave1", "leave2"}
                                      THEN "asyncLeave" ELSE "asyncBefore"}])
    /\ ret' = NoRet
    /\ UNCHANGED <<current, transitions, callbacks, uctx, cbs, callbackNames, transition,
                   processNoTransitionStates, eventMu, stateMu, ncalls, active, outstanding, fatal>>

\* e.Err = err, written by the callback
SetErr(t) ==
    /\ InCallback(t)
    /\ nops < OpBound
    /\ nops' = nops + 1
    /\ \E err \in ErrVals :
          stack' = SetTop(t, [top(t) EXCEPT !.Err = err, !.lastErr = err,
                                            !.setErr = err, !.setAfter = TRUE,
                                            !.ops = @ \cup {"err"}])
    /\ ret' = NoRet
    /\ UNCHANGED <<current, transitions, callbacks, uctx, cbs, callbackNames, transition,
                   processNoTransitionStates, eventMu, stateMu, ncalls, active, outstanding, fatal>>

-----------------------------------------------------------------------------
(* doTransition / transitionerStruct.transition, src/fsm.go:413-439, and   *)
(* the closure built by transitionFunc, src/fsm.go:356-381                 *)

LiveFrames == UNION {{stack[t][i] : i \in 1..Len(stack[t])} : t \in Threads}

\* a variant of uncancel_Err that reports the parent's cancellation
uncancel_Err_inherited(parentErr) == parentErr

\* (*uncancel).Err() returns nil whatever the state of the wrapped context
uncancel_Err(parentErr) == FALSE

\* a variant of ctxErrOf under which the closure never finds its context done
ctxErrOf_never(c) == FALSE

\* ctx.Err() != nil for the context the closure c captured: the context of the
\* Event() call that staged it (cancelled with its caller's, and by the deferred
\* cancel() when that call returns), or the one made by uncancelContext
ctxErrOf(c) ==
    IF ~c.async /\ \E fr \in LiveFrames : fr.id = c.id /\ fr.op = "Event"
    THEN (CHOOSE fr \in LiveFrames : fr.id = c.id /\ fr.op = "Event").ctxErr
    ELSE IF c.async THEN c.ctxErr \/ uncancel_Err(c.parentErr)
    ELSE c.ctxErr

\* a variant of notInTransition that runs whatever is stored
notInTransition_never(c) == FALSE

\* line 434: f.transition == nil
notInTransition(c) == ~c.set

\* a variant of handlerErrKept that overwrites the error a callback had set
handlerErrKept_overwritten(err) == "ctx"

\* lines 359-361: if e.Err == nil { e.Err = ctx.Err() }
handlerErrKept(err) == IF err = "nil" THEN "ctx" ELSE err

\* a variant of afterCtxDone that resets f.transition
afterCtxDone_cleared(c) == nilFunc

\* line 362: the closure returns, and what is stored in f.transition stays there
afterCtxDone(c) == c

\* f.transitionerObj.transition(f) up to the closure's check of its context
doTransition(t) ==
    /\ Running(t, {"Event", "Transition"}, "do")
    /\ LET f == top(t)
           c == transition
           own == (f.op = "Event" /\ c.id = f.id)
       IN
       IF notInTransition(c) THEN
           \* NotInTransitionError{}, turned into InternalError{} by Event()
           /\ stack' = SetTop(t, [f EXCEPT
                 !.pc = retPc(f), !.path = "nopending",
                 !.res = IF f.op = "Event" THEN "InternalError" ELSE "NotInTransitionError"])
           /\ UNCHANGED transition
       ELSE IF ctxErrOf(c) THEN
           \* if e.Err == nil { e.Err = ctx.Err() }; return
           LET err == IF own THEN f.Err ELSE c.e.Err
               newErr == handlerErrKept(err)
           IN  /\ transition' = afterCtxDone(IF own THEN c ELSE [c EXCEPT !.e.Err = newErr])
               /\ stack' = SetTop(t,
                    IF f.op = "Event"
                    THEN LET g == IF own THEN [f EXCEPT !.Err = newErr] ELSE f
                         IN  [g EXCEPT !.pc = retPc(f), !.path = "ctxdone",
                                       !.res = IF g.Err = "nil" THEN "nil" ELSE "err",
                                       !.resErr = g.Err]
                    ELSE [f EXCEPT !.pc = "ret", !.path = "ctxdone", !.res = "nil",
                                   !.cctx = c.ctxErr, !.cparent = c.parentErr,
                                   !.ccaller = c.callerErr])
       ELSE
           \* f.stateMu.Lock() is requested
           /\ stack' = SetTop(t,
                 IF own THEN [f EXCEPT !.pc = "commit", !.casync = c.async, !.eid = c.id]
                 ELSE [f EXCEPT !.pc = "commit", !.casync = c.async, !.eid = c.id,
                                !.event = c.e.Event, !.src = c.e.Src, !.dst = c.e.Dst,
                                !.Err = c.e.Err, !.canceled = c.e.canceled,
                                !.async = c.e.async,
                                !.cctx = c.ctxErr, !.cparent = c.parentErr,
                                !.ccaller = c.callerErr, !.elog = c.log])
           /\ UNCHANGED transition
    /\ stateMu' = IF ~notInTransition(transition) /\ ~ctxErrOf(transition)
                  THEN [stateMu EXCEPT !.waiting = @ + 1] ELSE stateMu
    /\ ret' = NoRet
    /\ UNCHANGED <<nops, current, transitions, callbacks, uctx, cbs, callbackNames, processNoTransitionStates,
                   eventMu, ncalls, active, outstanding, fatal>>

\* a variant of releasesEventMu that keeps eventMu locked over the callbacks
releasesEventMu_never(f) == FALSE

\* a variant of releasesEventMu that unlocks eventMu in an async closure too
releasesEventMu_always(f) == TRUE

\* line 374: if !async { f.eventMu.Unlock(); unlocked = true }
releasesEventMu(f) == ~f.casync

\* a variant of commit_transition that leaves the closure stored
commit_transition_kept(c) == c

\* line 367: f.transition = nil
commit_transition(c) == nilFunc

\* a variant of commit_current that leaves the machine in the source state
commit_current_src(f) == f.src

\* line 366: f.current = dst
commit_current(f) == f.dst

\* lines 365-377: the write of f.current under stateMu.Lock(), and the release
\* of eventMu when the closure was built with async == false
commit(t) ==
    /\ Running(t, {"Event", "Transition"}, "commit")
    /\ CanLock
    /\ LET f == top(t) IN
       /\ current' = commit_current(f)
       /\ transition' = commit_transition(transition)
       /\ stateMu' = [stateMu EXCEPT !.waiting = @ - 1]
       /\ IF releasesEventMu(f)
          THEN Unlock_eventMu
          ELSE UNCHANGED <<eventMu, fatal>>
       /\ stack' = SetTop(t, [f EXCEPT
             !.pc = "enter1",
             !.path = IF f.op = "Event" THEN "committed" ELSE "completed",
             !.unlocked = IF releasesEventMu(f) /\ f.op = "Event" /\ f.eid = f.id
                          THEN TRUE ELSE @])
    /\ ret' = NoRet
    /\ UNCHANGED <<nops, transitions, callbacks, uctx, cbs, callbackNames, processNoTransitionStates, ncalls, active, outstanding>>

\* a variant of Event_result that drops the error of the callbacks
Event_result_dropped(f) == "nil"

\* line 410: return e.Err
Event_result(f) == f.Err

\* the value returned once the after callbacks have run
finish(t) ==
    /\ Running(t, {"Event", "Transition"}, "finish")
    /\ LET f == top(t) IN
       stack' = SetTop(t,
          IF f.op = "Transition" THEN [f EXCEPT !.pc = "ret", !.res = "nil"]
          ELSE IF f.path = "notransition"
          THEN [f EXCEPT !.pc = retPc(f), !.res = "NoTransitionError", !.resErr = f.Err]
          ELSE [f EXCEPT !.pc = retPc(f), !.resErr = Event_result(f),
                         !.res = IF Event_result(f) = "nil" THEN "nil" ELSE "err"])
    /\ ret' = NoRet
    /\ UNCHANGED <<nops, current, transitions, callbacks, uctx, cbs, callbackNames, transition,
                   processNoTransitionStates, eventMu, stateMu, ncalls, active, outstanding, fatal>>

\* the deferred f.stateMu.RLock() of lines 348 and 404
Event_deferredRLock(t) ==
    /\ Running(t, {"Event"}, "retRLock")
    /\ CanRLock
    /\ stateMu' = [stateMu EXCEPT !.readers = @ + 1]
    /\ stack' = SetTop(t, [top(t) EXCEPT !.pc = "ret", !.rheld = TRUE, !.rdropped = FALSE])
    /\ ret' = NoRet
    /\ UNCHANGED <<nops, current, transitions, callbacks, uctx, cbs, callbackNames, transition,
                   processNoTransitionStates, eventMu, ncalls, active, outstanding, fatal>>

\* the stacks after the call of frame f returned on goroutine t: the Event() calls
\* of the other goroutines take note of its outcome
NotePeer(t, f) ==
    LET st == Pop(t)
        summary == Summary(f)
    IN  [u \in Threads |->
            IF u = t THEN PopNote(t, f)
            ELSE [i \in 1..Len(st[u]) |->
                    IF st[u][i].op = "Event" THEN [st[u][i] EXCEPT !.peer = summary]
                    ELSE st[u][i]]]

\* the remaining deferred calls of Event(): cancel(), f.stateMu.RUnlock(), and
\* f.eventMu.Unlock() unless unlocked; then the call returns
Event_return(t) ==
    /\ Running(t, {"Event"}, "ret")
    /\ LET f == top(t) IN
       /\ stateMu' = [stateMu EXCEPT !.readers = @ - 1]
       /\ IF ~f.unlocked THEN Unlock_eventMu ELSE UNCHANGED <<eventMu, fatal>>
       \* a closure of this call that is still stored keeps e and the cancelled ctx
       /\ transition' = IF transition.set /\ transition.id = f.id /\ ~transition.async
                        THEN [transition EXCEPT !.ctxErr = TRUE, !.e = eOf(f),
                                                !.log = f.log]
                        ELSE IF transition.set /\ transition.id = f.id
                        THEN [transition EXCEPT !.parentErr = TRUE, !.log = f.log]
                        ELSE transition
       /\ outstanding' = (outstanding \/ f.res = "AsyncError")
       /\ stack' = NotePeer(t, f)
       /\ ret' = [f EXCEPT !.pc = "returned", !.rheld = FALSE, !.cur = current,
                           !.trAfter = transition.set, !.depth = Len(stack[t])]
    /\ UNCHANGED <<nops, current, transitions, callbacks, uctx, cbs, callbackNames, processNoTransitionStates,
                   ncalls, active>>

\* Transition(): the deferred f.eventMu.Unlock(), then the call returns
Transition_return(t) ==
    /\ Running(t, {"Transition"}, "ret")
    /\ LET f == top(t) IN
       /\ Unlock_eventMu
       /\ outstanding' = (outstanding /\ f.path # "completed")
       /\ stack' = [stack EXCEPT ![t] = PopNote(t, f)]
       /\ ret' = [f EXCEPT !.pc = "returned", !.cur = current,
                           !.trAfter = transition.set, !.depth = Len(stack[t])]
    /\ UNCHANGED <<nops, current, transitions, callbacks, uctx, cbs, callbackNames, transition,
                   processNoTransitionStates, stateMu, ncalls, active>>

-----------------------------------------------------------------------------
(* Contexts.                                                               *)

\* The context passed to Event() is cancelled by its owner (or was cancelled
\* before the call).  Only the closure reads ctx.Err(), so every cancellation up
\* to that read is the one that happens right before it.
CancelCtx(t) ==
    /\ Running(t, {"Event"}, "do")
    /\ ~top(t).ctxErr
    /\ stack' = SetTop(t, [top(t) EXCEPT !.ctxErr = TRUE])
    /\ ret' = NoRet
    /\ UNCHANGED <<nops, current, transitions, callbacks, uctx, cbs, callbackNames, transition,
                   processNoTransitionStates, eventMu, stateMu, ncalls, active, outstanding, fatal>>

\* asyncError.CancelTransition(), the cancel function of uncancelContext
CancelTransition ==
    /\ transition.set
    /\ transition.async
    /\ ~transition.ctxErr
    /\ ~\E fr \in LiveFrames : fr.id = transition.id
    /\ transition' = [transition EXCEPT !.ctxErr = TRUE]
    /\ ret' = NoRet
    /\ UNCHANGED <<nops, current, transitions, callbacks, uctx, cbs, callbackNames, processNoTransitionStates,
                   eventMu, stateMu, stack, ncalls, active, outstanding, fatal>>

\* the caller of the Event() call that returned AsyncError cancels the context
\* it had passed to that call
CancelCallerCtx ==
    /\ transition.set
    /\ transition.async
    /\ ~transition.callerErr
    /\ ~\E fr \in LiveFrames : fr.id = transition.id
    /\ transition' = [transition EXCEPT !.callerErr = TRUE, !.parentErr = TRUE]
    /\ ret' = NoRet
    /\ UNCHANGED <<nops, current, transitions, callbacks, uctx, cbs, callbackNames, processNoTransitionStates,
                   eventMu, stateMu, stack, ncalls, active, outstanding, fatal>>

-----------------------------------------------------------------------------
(* Can(), Cannot() and AvailableTransitions(), src/fsm.go:234-260.  Each   *)
(* reads under stateMu.RLock(), which it releases before it returns.       *)

\* events a caller may pass to Can()
CanArgs == {"run", "bogus"}

\* a variant of Can that does not look at f.transition
Can_tableOnly(event) == eKey(event, current) \in DOMAIN transitions

\* lines 238-239: ok && (f.transition == nil)
Can(event) == eKey(event, current) \in DOMAIN transitions /\ ~transition.set

\* line 259: !f.Can(event)
Cannot(event) == ~Can(event)

Bool(b) == IF b THEN "true" ELSE "false"

\* a caller at the top level of goroutine t evaluates Can(event) and Cannot(event)
CallCan(t) ==
    /\ t \in active
    /\ stack[t] = <<>>
    /\ ncalls < CallBound
    /\ CanRLock
    /\ \E event \in CanArgs :
          ret' = [Frame("Can", ncalls + 1, event, "", FALSE) EXCEPT
                     !.pc = "returned", !.res = Bool(Can(event)),
                     !.arg = Bool(Cannot(event)), !.cur = current,
                     !.trAfter = transition.set, !.depth = 1]
    /\ ncalls' = ncalls + 1
    /\ UNCHANGED <<nops, current, transitions, callbacks, uctx, cbs, callbackNames, transition,
                   processNoTransitionStates, eventMu, stateMu, stack, active,
                   outstanding, fatal>>

\* a variant of availableKeys that ignores the source state
availableKeys_anySrc == DOMAIN transitions

\* lines 248-249: the keys of f.transitions whose src is f.current
availableKeys == {key \in DOMAIN transitions : key[2] = current}

\* the orders in which the range loop may visit the keys K
Orders(K) ==
    {o \in [1..Cardinality(K) -> K] : \A i, j \in 1..Cardinality(K) : o[i] = o[j] => i = j}

\* a caller at the top level of goroutine t calls AvailableTransitions()
AvailableTransitions(t) ==
    /\ t \in active
    /\ stack[t] = <<>>
    /\ ncalls < CallBound
    /\ CanRLock
    /\ \E o \in Orders(availableKeys) :
          ret' = [Frame("AvailableTransitions", ncalls + 1, "", "", FALSE) EXCEPT
                     !.pc = "returned", !.res = "slice",
                     !.avail = [i \in 1..Len(o) |-> o[i][1]], !.cur = current,
                     !.trAfter = transition.set, !.depth = 1]
    /\ ncalls' = ncalls + 1
    /\ UNCHANGED <<nops, current, transitions, callbacks, uctx, cbs, callbackNames, transition,
                   processNoTransitionStates, eventMu, stateMu, stack, active,
                   outstanding, fatal>>

-----------------------------------------------------------------------------

\* the steps of goroutine t but those of SetState()
StepEvents(t) ==
    \/ CallEvent(t)
    \/ CallTransition(t)
    \/ SetProcessNoTransitionStates(t)
    \/ LockEventMu(t)
    \/ Event_RLock(t)
    \/ Event_lookup(t)
    \/ beforeEventCallbacks(t)
    \/ Event_decide(t)
    \/ leaveStateCallbacks(t)
    \/ Event_RUnlock(t)
    \/ doTransition(t)
    \/ commit(t)
    \/ enterStateCallbacks(t)
    \/ afterEventCallbacks(t)
    \/ finish(t)
    \/ Event_deferredRLock(t)
    \/ Event_return(t)
    \/ Transition_return(t)
    \/ Cancel(t)
    \/ Async(t)
    \/ SetErr(t)
    \/ CancelCtx(t)
    \/ CallCan(t)
    \/ AvailableTransitions(t)

Step(t) ==
    \/ StepEvents(t)
    \/ CallSetState(t)
    \/ SetState(t)

Next ==
    \/ \E t \in Threads : Step(t)
    \/ CancelTransition
    \/ CancelCallerCtx

Spec == Init /\ [][Next]_vars

\* the same machine used by two goroutines
InitC ==
    /\ current = "start"
    /\ transitions = NewFSM_transitions(EventsB)
    /\ callbacks = NewFSM_callbacks(EventsB, CallbacksGeneric)
    /\ callbackNames = CallbacksGeneric
    /\ transition = nilFunc
    /\ processNoTransitionStates = FALSE
    /\ eventMu = FALSE
    /\ stateMu = [readers |-> 0, writer |-> FALSE, waiting |-> 0]
    /\ stack = [t \in Threads |-> <<>>]
    /\ ncalls = 0
    /\ nops = 0
    /\ ret = NoRet
    /\ active = Threads
    /\ outstanding = FALSE
    /\ fatal = FALSE
    /\ uctx = Background
    /\ cbs = NoCallbacks

SpecC == InitC /\ [][Next]_vars

\* the same machine with a callback for entering each state, used by two
\* goroutines
InitE ==
    /\ current = "start"
    /\ transitions = NewFSM_transitions(EventsB)
    /\ callbacks = NewFSM_callbacks(EventsB, CallbacksEnter)
    /\ callbackNames = CallbacksEnter
    /\ transition = nilFunc
    /\ processNoTransitionStates = FALSE
    /\ eventMu = FALSE
    /\ stateMu = [readers |-> 0, writer |-> FALSE, waiting |-> 0]
    /\ stack = [t \in Threads |-> <<>>]
    /\ ncalls = 0
    /\ nops = 0
    /\ ret = NoRet
    /\ active = Threads
    /\ outstanding = FALSE
    /\ fatal = FALSE
    /\ uctx = Background
    /\ cbs = NoCallbacks

SpecE == InitE /\ [][Next]_vars

-----------------------------------------------------------------------------
(* Current(), src/fsm.go:213-217, called by a goroutine or by a callback.  *)

\* f.Current() is called: f.stateMu.RLock() is requested
CallCurrent(t) ==
    /\ t \in active
    /\ \/ stack[t] = <<>> /\ ncalls < CallBound
       \/ InCallback(t) /\ nops < OpBound
    /\ stack' = [stack EXCEPT ![t] =
                    Append(@, [Frame("Current", 0, "", "", FALSE) EXCEPT !.pc = "rlock"])]
    /\ ncalls' = IF stack[t] = <<>> THEN ncalls + 1 ELSE ncalls
    /\ nops' = IF stack[t] = <<>> THEN nops ELSE nops + 1
    /\ ret' = NoRet
    /\ UNCHANGED <<current, transitions, callbacks, uctx, cbs, callbackNames, transition,
                   processNoTransitionStates, eventMu, stateMu, active, outstanding, fatal>>

\* the read lock is granted, f.current is read, the deferred RUnlock runs
Current(t) ==
    /\ t \in active
    /\ stack[t] # <<>>
    /\ top(t).op = "Current"
    /\ top(t).pc = "rlock"
    /\ CanRLock
    /\ stack' = Pop(t)
    /\ ret' = [top(t) EXCEPT !.pc = "returned", !.res = current, !.cur = current,
                             !.trAfter = transition.set, !.depth = Len(stack[t])]
    /\ UNCHANGED <<nops, current, transitions, callbacks, uctx, cbs, callbackNames, transition,
                   processNoTransitionStates, eventMu, stateMu, ncalls, active,
                   outstanding, fatal>>

\* panic(v) in a callback: nothing in Event(), Transition() or the closure
\* recovers, so the call runs its deferred calls and the panic goes on to the caller
Panic(t) ==
    /\ InCallback(t)
    /\ stack' = SetTop(t, [top(t) EXCEPT !.inh = FALSE, !.pc = retPc(top(t)),
                                         !.res = "panic"])
    /\ ret' = NoRet
    /\ UNCHANGED <<nops, current, transitions, callbacks, uctx, cbs, callbackNames, transition,
                   processNoTransitionStates, eventMu, stateMu, ncalls, active,
                   outstanding, fatal>>

\* two goroutines whose callbacks may panic
NextP ==
    \/ Next
    \/ \E t \in Threads : Panic(t)

SpecP == InitC /\ [][NextP]_vars

\* two goroutines whose callbacks, and which themselves, also call Current()
NextR ==
    \/ Next
    \/ \E t \in Threads : CallCurrent(t)
    \/ \E t \in Threads : Current(t)

SpecR == InitC /\ [][NextR]_vars

\* the closure that Event("run") stores in the machine of EventsB when the generic
\* leave callback calls Async(), after the before and the leave callback ran
DeferredRun ==
    [transitionFunc(0, EventStruct("run", "start", "end", "nil", FALSE, TRUE), FALSE, TRUE)
       EXCEPT !.parentErr = TRUE,
              !.log = <<cKey("", callbackBeforeEvent), cKey("", callbackLeaveState)>>]

\* the machine of two goroutines after that Event("run") returned AsyncError
InitT ==
    /\ current = "start"
    /\ transitions = NewFSM_transitions(EventsB)
    /\ callbacks = NewFSM_callbacks(EventsB, CallbacksGeneric)
    /\ callbackNames = CallbacksGeneric
    /\ transition = DeferredRun
    /\ processNoTransitionStates = FALSE
    /\ eventMu = FALSE
    /\ stateMu = [readers |-> 0, writer |-> FALSE, waiting |-> 0]
    /\ stack = [t \in Threads |-> <<>>]
    /\ ncalls = 0
    /\ nops = 0
    /\ ret = NoRet
    /\ active = Threads
    /\ outstanding = TRUE
    /\ fatal = FALSE
    /\ uctx = Background
    /\ cbs = NoCallbacks

SpecT == InitT /\ [][Next]_vars

\* two goroutines that never call SetState(), on a machine that is idle or holds
\* the closure of a deferred run
InitN ==
    /\ current = "start"
    /\ transitions = NewFSM_transitions(EventsB)
    /\ callbacks = NewFSM_callbacks(EventsB, CallbacksGeneric)
    /\ callbackNames = CallbacksGeneric
    /\ transition \in {nilFunc, DeferredRun}
    /\ outstanding = transition.set
    /\ processNoTransitionStates = FALSE
    /\ eventMu = FALSE
    /\ stateMu = [readers |-> 0, writer |-> FALSE, waiting |-> 0]
    /\ stack = [t \in Threads |-> <<>>]
    /\ ncalls = 0
    /\ nops = 0
    /\ ret = NoRet
    /\ active = Threads
    /\ fatal = FALSE
    /\ uctx = Background
    /\ cbs = NoCallbacks

\* one goroutine that never calls SetState(), with either table
InitS ==
    /\ current = "start"
    /\ \E events \in {EventsA, EventsOneWay}, names \in CallbacksChoices :
          /\ transitions = NewFSM_transitions(events)
          /\ callbacks = NewFSM_callbacks(events, names)
          /\ callbackNames = names
    /\ transition = nilFunc
    /\ processNoTransitionStates = FALSE
    /\ eventMu = FALSE
    /\ stateMu = [readers |-> 0, writer |-> FALSE, waiting |-> 0]
    /\ stack = [t \in Threads |-> <<>>]
    /\ ncalls = 0
    /\ nops = 0
    /\ ret = NoRet
    /\ active = {"t1"}
    /\ outstanding = FALSE
    /\ fatal = FALSE
    /\ uctx = Background
    /\ cbs = NoCallbacks

\* one goroutine and a machine made with the table EventsBoth
InitK ==
    /\ current = "start"
    /\ \E names \in {CallbacksShort, CallbacksCrossed, CallbacksGeneric, CallbacksAll} :
          /\ transitions = NewFSM_transitions(EventsBoth)
          /\ callbacks = NewFSM_callbacks(EventsBoth, names)
          /\ callbackNames = names
    /\ transition = nilFunc
    /\ processNoTransitionStates = FALSE
    /\ eventMu = FALSE
    /\ stateMu = [readers |-> 0, writer |-> FALSE, waiting |-> 0]
    /\ stack = [t \in Threads |-> <<>>]
    /\ ncalls = 0
    /\ nops = 0
    /\ ret = NoRet
    /\ active = {"t1"}
    /\ outstanding = FALSE
    /\ fatal = FALSE
    /\ uctx = Background
    /\ cbs = NoCallbacks

SpecK == InitK /\ [][Next]_vars

NextN ==
    \/ \E t \in Threads : StepEvents(t)
    \/ CancelTransition
    \/ CancelCallerCtx

SpecN == InitN /\ [][NextN]_vars

SpecS == InitS /\ [][NextN]_vars

TypeOK ==
    /\ current \in StateNames
    /\ eventMu \in BOOLEAN
    /\ stateMu.readers \in 0..(MaxCalls + MaxCallsC)
    /\ stateMu.waiting \in 0..(MaxCalls + MaxCallsC)
    /\ ncalls \in 0..(MaxCalls + MaxCallsC)

-----------------------------------------------------------------------------
(* uncancelContext, src/fsm_ext.go:72-85.  uctx is a context ctx and the   *)
(* context that uncancelContext(ctx) returned.                             *)

\* all variables of the machine
machine == <<current, transitions, callbacks, callbackNames, transition, processNoTransitionStates,
             eventMu, stateMu, stack, ncalls, nops, ret, active, outstanding, fatal>>

\* a machine that was constructed and is used by no goroutine
Unused ==
    /\ current = "start"
    /\ transitions = NewFSM_transitions(EventsB)
    /\ callbacks = NewFSM_callbacks(EventsB, CallbacksNone)
    /\ callbackNames = CallbacksNone
    /\ transition = nilFunc
    /\ processNoTransitionStates = FALSE
    /\ eventMu = FALSE
    /\ stateMu = [readers |-> 0, writer |-> FALSE, waiting |-> 0]
    /\ stack = [t \in Threads |-> <<>>]
    /\ ncalls = 0
    /\ nops = 0
    /\ ret = NoRet
    /\ active = {}
    /\ outstanding = FALSE
    /\ fatal = FALSE

\* a variant of uncancel_Done that hands out the channel of the wrapped context
uncancel_Done_inherited(parentDone) == parentDone

\* line 77: (*uncancel).Done() returns a nil channel, which is never ready
uncancel_Done(parentDone) == FALSE

\* line 76: (*uncancel).Deadline() returns the zero time and false
uncancel_Deadline(parentDeadline) == FALSE

\* lines 72-74: uncancel embeds the context, Value() is the wrapped context's
uncancel_Value(vals, key) == vals[key]

\* the context returned by context.WithCancel(&uncancel{ctx}), line 84: it is done
\* once its cancel function was called or its parent, the uncancel, is done
ctx_Done == uctx.cancelled \/ uncancel_Done(uctx.done)

ctx_Err ==
    IF uctx.cancelled THEN "Canceled"
    ELSE IF uncancel_Err(uctx.done) THEN "Canceled" ELSE "nil"

ctx_Value(key) == uncancel_Value(uctx.vals, key)

ctx_Deadline == uncancel_Deadline(uctx.deadline)

\* ctx, cancel := uncancelContext(ctx)
uncancelContext ==
    /\ ~uctx.made
    /\ uctx' = [uctx EXCEPT !.made = TRUE, !.doneAtCall = uctx.done]
    /\ UNCHANGED <<machine, cbs>>

\* the owner of the wrapped context cancels it
cancelFunc ==
    /\ ~uctx.done
    /\ uctx' = [uctx EXCEPT !.done = TRUE]
    /\ UNCHANGED <<machine, cbs>>

\* the cancel function returned by uncancelContext: it cancels the context made
\* by WithCancel and the contexts derived from it
newCancelFunc ==
    /\ uctx.made
    /\ ~uctx.cancelled
    /\ uctx' = [uctx EXCEPT !.cancelled = TRUE]
    /\ UNCHANGED <<machine, cbs>>

InitUncancel ==
    /\ Unused
    /\ \E vals \in [CtxKeys -> CtxVals \cup {None}], deadline \in BOOLEAN, done \in BOOLEAN :
          uctx = Context(vals, deadline, done)
    /\ cbs = NoCallbacks

NextUncancel ==
    \/ uncancelContext
    \/ cancelFunc
    \/ newCancelFunc

SpecUncancel == InitUncancel /\ [][NextUncancel]_vars

-----------------------------------------------------------------------------
(* Callback.validate and Callbacks.validate, src/callback.go:102-151.      *)

BeforeEvent == "before_event"
BeforeAllEvents == "before_all_events"
AfterEvent == "after_event"
AfterAllEvents == "after_all_events"
EnterState == "enter_state"
EnterAllStates == "enter_all_states"
LeaveState == "leave_state"
LeaveAllStates == "leave_all_states"

\* the zero values of the event and state types
zeroEvent == ""
zeroState == ""

\* the most bindings of a Callbacks value
MaxBindings == 2

\* the bindings: every CallbackType, an unknown one and the empty one, with and
\* without an event, with and without a state
CallbackWhens ==
    {BeforeEvent, BeforeAllEvents, AfterEvent, AfterAllEvents,
     EnterState, EnterAllStates, LeaveState, LeaveAllStates, "enter_event", ""}

CallbackInputs ==
    [When : CallbackWhens, Event : {zeroEvent, "run"}, State : {zeroState, "start"}]

\* a variant of Callback_validate that does not look at the field a category
\* has no use for
Callback_validate_lax(c) ==
    CASE c.When \in {BeforeEvent, AfterEvent} ->
            IF c.Event = zeroEvent THEN "given but no event" ELSE "nil"
      [] c.When \in {BeforeAllEvents, AfterAllEvents} ->
            IF c.Event # zeroEvent THEN "given with event"
            ELSE IF c.State # zeroState THEN "given with state"
            ELSE "nil"
      [] c.When \in {EnterState, LeaveState} ->
            IF c.State = zeroState THEN "given but no state" ELSE "nil"
      [] c.When \in {EnterAllStates, LeaveAllStates} ->
            IF c.State # zeroState THEN "given with state"
            ELSE IF c.Event # zeroEvent THEN "given with event"
            ELSE "nil"
      [] OTHER -> "invalid callback"

\* (c *Callback) validate(): the error, or "nil"
Callback_validate(c) ==
    CASE c.When \in {BeforeEvent, AfterEvent} ->
            IF c.Event = zeroEvent THEN "given but no event"
            ELSE IF c.State # zeroState THEN "given but state specified"
            ELSE "nil"
      [] c.When \in {BeforeAllEvents, AfterAllEvents} ->
            IF c.Event # zeroEvent THEN "given with event"
            ELSE IF c.State # zeroState THEN "given with state"
            ELSE "nil"
      [] c.When \in {EnterState, LeaveState} ->
            IF c.State = zeroState THEN "given but no state"
            ELSE IF c.Event # zeroEvent THEN "given but event specified"
            ELSE "nil"
      [] c.When \in {EnterAllStates, LeaveAllStates} ->
            IF c.State # zeroState THEN "given with state"
            ELSE IF c.Event # zeroEvent THEN "given with event"
            ELSE "nil"
      [] OTHER -> "invalid callback"

\* (cs Callbacks) validate(): the error of the first binding that has one
RECURSIVE Callbacks_validate_from(_, _)
Callbacks_validate_from(cs, i) ==
    IF i > Len(cs) THEN "nil"
    ELSE IF Callback_validate(cs[i]) # "nil" THEN Callback_validate(cs[i])
    ELSE Callbacks_validate_from(cs, i + 1)

Callbacks_validate(cs) == Callbacks_validate_from(cs, 1)

\* cs.validate() is called, and cb.validate() for each of its bindings
validate ==
    /\ cbs.err = "unset"
    /\ cbs' = [cbs EXCEPT !.err = Callbacks_validate(cbs.cs),
                          !.each = [i \in 1..Len(cbs.cs) |-> Callback_validate(cbs.cs[i])]]
    /\ UNCHANGED <<machine, uctx>>

InitValidate ==
    /\ Unused
    /\ uctx = Background
    /\ \E n \in 0..MaxBindings : \E cs \in [1..n -> CallbackInputs] :
          cbs = [cs |-> cs, err |-> "unset", each |-> <<>>]

NextValidate == validate

SpecValidate == InitValidate /\ [][NextValidate]_vars

-----------------------------------------------------------------------------
(* Properties.  ret is the frame of the call that has just returned: its   *)
(* inputs (event, pre, preTr), its result (res, resErr, resState), the     *)
(* callbacks it invoked (log), what they did (ops), and f.current and      *)
(* f.transition as the caller finds them (cur, trAfter).                   *)

Registered(keys) == SelectSeq(keys, LAMBDA k : k \in callbacks)

beforeKeys(event) == <<cKey(event, callbackBeforeEvent), cKey("", callbackBeforeEvent)>>
leaveKeys(src) == <<cKey(src, callbackLeaveState), cKey("", callbackLeaveState)>>
enterKeys(dst) == <<cKey(dst, callbackEnterState), cKey("", callbackEnterState)>>
afterKeys(event) == <<cKey(event, callbackAfterEvent), cKey("", callbackAfterEvent)>>

HasEntry(event, src) == eKey(event, src) \in DOMAIN transitions
Entry(event, src) == transitions[eKey(event, src)]

\* C1: an Event() call that commits a state-changing transition synchronously has
\* invoked exactly the registered callbacks among before_<event>, before_event,
\* leave_<src>, leave_state, enter_<dst>, enter_state, after_<event>,
\* after_event, once each and in this order.
C1_CallbackOrder ==
    (ret.op = "Event" /\ ret.path = "committed" /\ ret.src # ret.dst)
    => ret.log = Registered(beforeKeys(ret.event) \o leaveKeys(ret.src)
                            \o enterKeys(ret.dst) \o afterKeys(ret.event))

\* a synchronous commit with all eight callbacks registered has returned
C1_Witness ==
    /\ ret.op = "Event"
    /\ ret.path = "committed"
    /\ ret.src # ret.dst
    /\ Len(ret.log) = 8

\* C2 as stated: from a source state of a table entry, with nothing pending and
\* no callback cancelling, deferring or setting an error, Event() returns nil
\* and Current() is the entry's destination.
C2_Original ==
    (/\ ret.op = "Event"
     /\ ~ret.preTr
     /\ HasEntry(ret.event, ret.pre)
     /\ Entry(ret.event, ret.pre) # ret.pre
     /\ ret.ops \cap {"cancel", "asyncLeave", "asyncBefore", "err"} = {})
    => (ret.res = "nil" /\ ret.cur = Entry(ret.event, ret.pre))

\* C2, amended: as C2, provided the context passed to Event() is not cancelled;
\* Current() is the destination on return unless a callback of the call itself
\* called Event(), Transition() or SetState() on the machine.
C2_Amended ==
    (/\ ret.op = "Event"
     /\ ~ret.preTr
     /\ HasEntry(ret.event, ret.pre)
     /\ Entry(ret.event, ret.pre) # ret.pre
     /\ ret.ops \cap {"cancel", "asyncLeave", "asyncBefore", "err"} = {}
     /\ ~ret.ctxErr)
    => (/\ ret.res = "nil"
        /\ ret.path = "committed"
        /\ "call" \notin ret.ops => ret.cur = Entry(ret.event, ret.pre))

\* "run" is resolved from "end", the source of its second description
C2_Witness ==
    /\ ret.op = "Event"
    /\ ret.event = "run"
    /\ ret.pre = "end"
    /\ ret.res = "nil"
    /\ ret.cur = "finished"

\* C3: with nothing pending and no entry for (event, Current()), Event() returns
\* InvalidEventError{event, current} when the event has an entry for another
\* source and UnknownEventError otherwise; Current() and the pending marker are
\* unchanged and no callback is invoked.
C3_LookupMiss ==
    (ret.op = "Event" /\ ~ret.preTr /\ ~HasEntry(ret.event, ret.pre))
    => (/\ IF \E ekey \in DOMAIN transitions : ekey[1] = ret.event
           THEN ret.res = "InvalidEventError" /\ ret.resState = ret.pre
           ELSE ret.res = "UnknownEventError"
        /\ ret.cur = ret.pre
        /\ ~ret.trAfter
        /\ ret.log = <<>>)

\* an event of the table was rejected in a state that is not one of its sources
C3_Witness ==
    /\ ret.op = "Event"
    /\ ret.res = "InvalidEventError"
    /\ ret.event = "reset"
    /\ ret.pre = "start"

\* C4: when a before or leave callback calls Cancel(), Event() returns
\* CanceledError, Current() is unchanged, nothing is left pending and no callback
\* is invoked after the cancelling one.
C4_Cancel ==
    (ret.op = "Event" /\ "cancel" \in ret.ops)
    => (/\ ret.res = "CanceledError"
        /\ ret.cur = ret.pre
        /\ ~ret.trAfter
        /\ Len(ret.log) = ret.cancelAt
        /\ \A i \in 1..Len(ret.log) :
              ret.log[i].callbackType \in {callbackBeforeEvent, callbackLeaveState})

\* leave_<src> cancelled while leave_state is registered too
C4_Witness ==
    /\ ret.op = "Event"
    /\ "cancel" \in ret.ops
    /\ ret.log # <<>>
    /\ ret.log[Len(ret.log)] = cKey(ret.src, callbackLeaveState)
    /\ cKey("", callbackLeaveState) \in callbacks

\* C5 as stated: for an entry whose destination is the current state, with the
\* flag off, Event() returns NoTransitionError with the callbacks' error,
\* Current() is unchanged, the before and after callbacks run, no leave or enter
\* callback runs and nothing is staged.
C5_Original ==
    (/\ ret.op = "Event"
     /\ ~ret.preTr
     /\ HasEntry(ret.event, ret.pre)
     /\ Entry(ret.event, ret.pre) = ret.pre
     /\ ~processNoTransitionStates)
    => (/\ ret.res = "NoTransitionError"
        /\ ret.resErr = ret.Err
        /\ ret.cur = ret.pre
        /\ ret.log = Registered(beforeKeys(ret.event) \o afterKeys(ret.event))
        /\ ~ret.trAfter)

\* C5, amended: as C5, provided no before callback calls Cancel(); Current() and
\* the pending marker are unchanged on return unless an after callback of the
\* call itself called Event(), Transition() or SetState() on the machine.
C5_Amended ==
    (/\ ret.op = "Event"
     /\ ~ret.preTr
     /\ HasEntry(ret.event, ret.pre)
     /\ Entry(ret.event, ret.pre) = ret.pre
     /\ ~processNoTransitionStates
     /\ "cancel" \notin ret.ops)
    => (/\ ret.res = "NoTransitionError"
        /\ ret.resErr = ret.Err
        /\ ret.log = Registered(beforeKeys(ret.event) \o afterKeys(ret.event))
        /\ "call" \notin ret.ops => (ret.cur = ret.pre /\ ~ret.trAfter))

\* a self-transition ran its two before and its two after callbacks
C5_Witness ==
    /\ ret.op = "Event"
    /\ ret.res = "NoTransitionError"
    /\ ret.event = "stay"
    /\ Len(ret.log) = 4


latePhase(f) == f.pc \in {"enter1", "enter2", "after1", "after2"}

noLateCallback(log) ==
    \A i \in 1..Len(log) :
        log[i].callbackType \in {callbackBeforeEvent, callbackLeaveState}

\* an Event() call whose leave callback called Async() returns AsyncError, has
\* run no enter or after callback, and leaves Current() at src with the
\* transition pending
C6_EventPart(cancelAllowed) ==
    (/\ ret.op = "Event"
     /\ "asyncLeave" \in ret.ops
     /\ cancelAllowed \/ "cancel" \notin ret.ops)
    => (/\ ret.res = "AsyncError"
        /\ noLateCallback(ret.log)
        /\ ret.cur = ret.src
        /\ ret.trAfter
        /\ transition.async
        /\ transition.e.Dst = ret.dst)

\* C6 as stated: after Async() in a leave callback Event() returns AsyncError and
\* runs no enter or after callback, Current() is src while the transition is
\* pending, and the next Transition() returns nil, sets Current() to the staged
\* destination and runs the enter and then the after callbacks.
C6_Original ==
    /\ C6_EventPart(TRUE)
    /\ (transition.set /\ transition.async) => current = transition.e.Src
    /\ (ret.op = "Transition" /\ ret.preAsync)
       => (/\ ret.res = "nil"
           /\ ret.cur = ret.preDst
           /\ ret.log = Registered(enterKeys(ret.preDst) \o afterKeys(ret.preEvent)))

\* C6, amended: as C6, provided the callback that calls Async() does not also
\* call Cancel(); Current() stays at src while the transition is pending unless
\* SetState() is called; the next Transition() returns nil, and unless the
\* cancel function of the AsyncError was invoked before it, it sets Current() to
\* the staged destination and runs the enter and then the after callbacks
\* (Current() is the destination on return unless one of them called SetState()).
C6_Amended ==
    /\ [](/\ C6_EventPart(FALSE)
          /\ (ret.op = "Transition" /\ ret.preAsync)
             => (/\ ret.res = "nil"
                 /\ \/ /\ ret.path = "ctxdone"
                       /\ transition.set /\ transition.ctxErr
                       /\ ret.cur = ret.pre
                       /\ ret.log = <<>>
                    \/ /\ ret.path = "completed"
                       /\ ~ret.trAfter
                       /\ ret.log = Registered(enterKeys(ret.preDst)
                                               \o afterKeys(ret.preEvent))
                       /\ "call" \notin ret.ops => ret.cur = ret.preDst))
    /\ [][(transition.set /\ transition.async /\ transition'.set)
          => (current' = current \/ ret'.op = "SetState")]_vars

\* Transition() completed a deferred transition and ran four callbacks
C6_Witness ==
    /\ ret.op = "Transition"
    /\ ret.preAsync
    /\ ret.path = "completed"
    /\ ret.cur = ret.preDst
    /\ ret.cur # ret.pre
    /\ Len(ret.log) = 4

\* C7: while a transition is pending every Event() call, whatever its event name,
\* returns InTransitionError, invokes no callback and changes neither Current()
\* nor the pending transition; once Transition() has completed it nothing is
\* pending and Event() is no longer rejected with InTransitionError.
C7_InTransition ==
    /\ [](/\ (ret.op = "Event" /\ ret.preTr)
             => (/\ ret.res = "InTransitionError"
                 /\ ret.log = <<>>
                 /\ ret.cur = ret.pre
                 /\ ret.trAfter)
          /\ (ret.op = "Transition" /\ ret.path = "completed") => ~ret.trAfter
          /\ (ret.op = "Event" /\ ~ret.preTr) => ret.res # "InTransitionError")
    /\ [][\A t \in Threads :
            (/\ stack[t] # <<>>
             /\ top(t).op = "Event"
             /\ top(t).preTr
             /\ stack'[t] # stack[t])
            => (current' = current /\ transition' = transition)]_vars

\* an event that is in no table was rejected while an async transition was pending
C7_Witness ==
    /\ ret.op = "Event"
    /\ ret.preAsync
    /\ ret.event = "bogus"
    /\ ret.res = "InTransitionError"

\* C8: Transition() with nothing pending returns NotInTransitionError, invokes no
\* callback and leaves Current() unchanged.
C8_NotInTransition ==
    (ret.op = "Transition" /\ ~ret.preTr)
    => (/\ ret.res = "NotInTransitionError"
        /\ ret.log = <<>>
        /\ ret.cur = ret.pre)

\* Transition() was called with nothing pending and has returned
C8_Witness ==
    /\ ret.op = "Transition"
    /\ ~ret.preTr
    /\ ret.res = "NotInTransitionError"

\* the call of frame f waits for a lock that is not available
Blocked(f) ==
    \/ f.pc = "lock" /\ eventMu
    \/ f.pc \in {"rlock", "retRLock"} /\ ~CanRLock
    \/ f.pc \in {"commit", "wlock"} /\ ~CanLock

\* the frame of the Event() call that a callback of frame number i made
NestedEventIn(t, i, ops) ==
    /\ i + 1 <= Len(stack[t])
    /\ stack[t][i + 1].op = "Event"
    /\ stack[t][i].op \in ops
    /\ latePhase(stack[t][i])

\* C9: an Event() call made by an enter or after callback of a synchronous
\* Event() call, at any depth, never waits for a lock, finds the enclosing call's
\* transition no longer pending (so it is never rejected with InTransitionError
\* on account of a call that encloses it), and has returned, with its transition
\* committed, while the enclosing call is still running.
C9_Reentrant ==
    /\ \A t \in Threads : \A i \in 1..Len(stack[t]) :
          /\ NestedEventIn(t, i, {"Event"}) => ~Blocked(stack[t][i + 1])
          /\ (stack[t][i].op = "Event" /\ latePhase(stack[t][i]))
             => ~(transition.set /\ transition.id = stack[t][i].id)
    /\ (ret.op = "Event" /\ ret.depth >= 2 /\ ret.path = "committed")
       => (/\ \E t \in Threads : Len(stack[t]) = ret.depth - 1 /\ top(t).inh
           /\ "call" \notin ret.ops => ret.cur = ret.dst)
    /\ (ret.op = "Event" /\ ret.depth >= 2 /\ ret.res = "InTransitionError")
       => \A t \in Threads : \A i \in 1..Len(stack[t]) :
              latePhase(stack[t][i]) => transition.id # stack[t][i].id

\* an Event() call nested two levels deep has committed its transition
C9_Witness ==
    /\ ret.op = "Event"
    /\ ret.depth = 3
    /\ ret.path = "committed"
    /\ ret.cur = ret.dst
    /\ \A i \in 1..2 : stack["t1"][i].op = "Event" /\ latePhase(stack["t1"][i])

\* C10: an Event() call made by an enter or after callback that runs while
\* Transition() completes a deferred transition never waits for a lock.
C10_ReentrantInTransition ==
    \A t \in Threads : \A i \in 1..Len(stack[t]) :
        NestedEventIn(t, i, {"Transition"}) => ~Blocked(stack[t][i + 1])

-----------------------------------------------------------------------------
(* Two goroutines.                                                         *)

Frames(t) == {stack[t][i] : i \in 1..Len(stack[t])}

\* the part of Event() between the table lookup and the commit or the early return
InDispatch(f) ==
    /\ f.op = "Event"
    /\ f.pc \in {"lookup", "before1", "before2", "decide", "leave1", "leave2",
                 "runlock", "do", "commit"}

\* C11 as stated: no callback of another goroutine's call runs between the first
\* and the last callback of an Event() call.
C11_Original ==
    /\ \A t \in Threads : \A f \in Frames(t) : ~f.interleaved
    /\ ~ret.interleaved

\* C11, amended: the parts of two concurrent Event() calls that run from the
\* first before callback to the commit (or the early return) never overlap: no
\* before or leave callback of one call runs between the first before callback
\* and the commit of the other.  Enter and after callbacks run after the call
\* released the event lock and may be interleaved with callbacks of another call.
C11_Amended ==
    /\ \A t, u \in Threads :
          t # u => ~\E f \in Frames(t), g \in Frames(u) : InDispatch(f) /\ InDispatch(g)
    /\ \A t \in Threads : \A f \in Frames(t) : ~f.seenEarly
    /\ ~ret.seenEarly

\* an Event() call returned after callbacks of another goroutine's call ran
\* between its own
C11_Witness ==
    /\ ret.op = "Event"
    /\ ret.interleaved
    /\ ret.path = "committed"
    /\ Len(ret.log) = 4

\* the call of frame g has not reached its table lookup, or is past its commit
\* or early return
OutsideDispatch(g) ==
    \/ g.op # "Event"
    \/ g.pc \in {"lock", "rlock"} /\ g.log = <<>> /\ g.src = ""
    \/ g.unlocked
    \/ g.res # ""

\* two top-level Event("run") calls, one in ret and one in its field peer, that
\* were both made in state start with nothing pending, with no further call
TwoRuns ==
    /\ ret.op = "Event" /\ ret.peer.op = "Event"
    /\ ret.depth = 1
    /\ ret.event = "run" /\ ret.peer.event = "run"
    /\ ret.pre = "start" /\ ret.peer.pre = "start"
    /\ ~ret.preTr /\ ~ret.peer.preTr

Commits(r) == r.path = "committed"

\* C12 as stated: while an Event() call is in its before or leave phase, an
\* Event() call of another goroutine has not reached its table lookup; the
\* lookup uses the state the first call left; and of two concurrent
\* Event("run") calls made in state start, where run has the single entry
\* start -> end, exactly one commits and the other returns an error and has run
\* no callback.
C12_Original ==
    /\ \A t, u \in Threads : \A f \in Frames(t), g \in Frames(u) :
          (t # u /\ f.op = "Event"
                 /\ f.pc \in {"before1", "before2", "decide", "leave1", "leave2"})
          => (/\ OutsideDispatch(g)
              /\ f.src = current
              /\ f.dst = transitions[eKey(f.event, current)])
    /\ TwoRuns
       => \/ Commits(ret) /\ ~Commits(ret.peer)
                          /\ ret.peer.res \notin {"", "nil"} /\ ret.peer.nlog = 0
          \/ Commits(ret.peer) /\ ~Commits(ret)
                               /\ ret.res \notin {"", "nil"} /\ ret.log = <<>>

\* neither of the two calls had a callback that cancelled, deferred or called
\* into the machine, no context was cancelled, and no third call was made before
\* both returned
Undisturbed ==
    /\ ret.ops \subseteq {"err"} /\ ret.peer.ops \subseteq {"err"}
    /\ ~ret.ctxErr /\ ~ret.peer.ctxErr
    /\ ncalls = 2

\* C12, amended: as C12, where "exactly one commits" is claimed when no callback
\* of the two calls cancels, defers or calls into the machine, no context is
\* cancelled and no other call is made before both have returned.
C12_Amended ==
    /\ \A t, u \in Threads : \A f \in Frames(t), g \in Frames(u) :
          (t # u /\ f.op = "Event"
                 /\ f.pc \in {"before1", "before2", "decide", "leave1", "leave2"})
          => (/\ OutsideDispatch(g)
              /\ f.src = current
              /\ f.dst = transitions[eKey(f.event, current)])
    /\ (TwoRuns /\ Undisturbed)
       => \/ Commits(ret) /\ ~Commits(ret.peer)
                          /\ ret.peer.res = "InvalidEventError" /\ ret.peer.nlog = 0
          \/ Commits(ret.peer) /\ ~Commits(ret)
                               /\ ret.res = "InvalidEventError" /\ ret.log = <<>>

\* the second of two concurrent Event("run") calls returned InvalidEventError
\* because the first had committed
C12_Witness ==
    /\ TwoRuns /\ Undisturbed
    /\ ret.res = "InvalidEventError"
    /\ ret.resState = "end"
    /\ Commits(ret.peer)

-----------------------------------------------------------------------------
(* The pending transition and the contexts.                                *)

Idle == \A t \in Threads : stack[t] = <<>>

\* C13: whenever no call is executing, f.transition is set if and only if an
\* Event() returned AsyncError and no Transition() has completed that
\* transition since.
C13_PendingMarker == Idle => (transition.set <=> outstanding)

\* C14: after an Event() call that was made with nothing pending, and whose
\* callbacks made no call of their own, returns anything but AsyncError, nothing
\* is pending; and a top-level Event() is rejected with InTransitionError only
\* while a transition deferred by an AsyncError is outstanding.
C14_NoPendingAfterError ==
    /\ (ret.op = "Event" /\ ret.res # "AsyncError" /\ ~ret.preTr /\ "call" \notin ret.ops)
       => ~ret.trAfter
    /\ (ret.op = "Event" /\ ret.depth = 1 /\ ret.res = "InTransitionError")
       => outstanding

\* what is left behind when the closure found its context cancelled: the closure
\* of a synchronous Event() call that has returned
StaleClosure == transition.set /\ ~transition.async /\ transition.ctxErr

\* apart from a stale closure, f.transition follows the outstanding AsyncError
PendingMarkerApartFromStale ==
    Idle => /\ outstanding => transition.set /\ transition.async
            /\ (transition.set /\ ~outstanding) => StaleClosure

\* C15 as stated: after the cancel function of the AsyncError was invoked,
\* Transition() returns nil and the commit proceeds: Current() is the staged
\* destination.
C15_Original ==
    (ret.op = "Transition" /\ ret.preAsync /\ ret.cctx)
    => (ret.res = "nil" /\ ret.cur = ret.preDst)

\* C15, amended: after the cancel function of the AsyncError was invoked,
\* Transition() returns nil but the commit does not proceed: Current() is
\* unchanged, no callback runs (so none observes the context), and the transition
\* stays pending with its context done.
C15_Amended ==
    (ret.op = "Transition" /\ ret.preAsync /\ ret.cctx)
    => (/\ ret.res = "nil"
        /\ ret.path = "ctxdone"
        /\ ret.cur = ret.pre
        /\ ret.log = <<>>
        /\ ret.trAfter
        /\ transition.async /\ transition.ctxErr
        /\ outstanding)

\* Transition() returned after the cancel function was invoked, and the
\* transition is still pending
C15_Witness ==
    /\ ret.op = "Transition"
    /\ ret.cctx
    /\ ret.path = "ctxdone"
    /\ ret.trAfter
    /\ ret.cur # ret.preDst

\* C16: after CancelTransition of the AsyncError was invoked, Transition()
\* returns nil, Current() remains the source state and no enter or after
\* callback runs.
C16_CancelTransition ==
    (ret.op = "Transition" /\ ret.preAsync /\ ret.cctx)
    => (/\ ret.res = "nil"
        /\ ret.cur = ret.pre
        /\ ~\E i \in 1..Len(ret.log) :
              ret.log[i].callbackType \in {callbackEnterState, callbackAfterEvent})

\* Transition() returned nil after CancelTransition, with Current() still the
\* source state of the deferred transition
C16_Witness ==
    /\ ret.op = "Transition"
    /\ ret.preAsync
    /\ ret.cctx
    /\ ret.res = "nil"
    /\ ret.cur = transition.e.Src

\* C17: when the closure of a synchronous Event() finds the context cancelled,
\* Event() leaves Current() unchanged, runs no enter or after callback, and
\* returns the error a callback had set, or else the context's error.
C17_CtxCancelledAtCommit ==
    (ret.op = "Event" /\ ret.ctxErr)
    => (/\ ret.path = "ctxdone"
        /\ ret.cur = ret.pre
        /\ noLateCallback(ret.log)
        /\ ret.res = "err"
        /\ IF "err" \in ret.ops THEN ret.resErr \in ErrVals ELSE ret.resErr = "ctx")

\* Event() returned the error its callback had set although the context was
\* cancelled at the commit step
C17_Witness ==
    /\ ret.op = "Event"
    /\ ret.ctxErr
    /\ ret.resErr \in ErrVals
    /\ ret.log # <<>>

\* C18: a deferred transition whose own cancel function was not invoked is
\* committed by Transition() although the context of the Event() call that
\* staged it is done (that call has returned, and its caller may have cancelled
\* the context it had passed); the closure finds its context done only when the
\* cancel function was invoked; and invoking it leaves the caller's context as
\* it is.
C18_Decoupled ==
    /\ [](/\ (ret.op = "Transition" /\ ret.preAsync /\ ~ret.cctx)
             => (/\ ret.path = "completed"
                 /\ ret.res = "nil"
                 /\ ret.cparent
                 /\ "call" \notin ret.ops => ret.cur = ret.preDst)
          /\ (ret.op = "Transition" /\ ret.path = "ctxdone" /\ ret.preAsync) => ret.cctx)
    /\ [][(/\ transition.set /\ transition.async /\ ~transition.ctxErr
           /\ transition'.set /\ transition'.id = transition.id /\ transition'.ctxErr)
          => transition'.callerErr = transition.callerErr]_vars

\* Transition() committed a deferred transition after the caller of Event() had
\* cancelled its context
C18_Witness ==
    /\ ret.op = "Transition"
    /\ ret.path = "completed"
    /\ ret.ccaller
    /\ ret.cparent
    /\ ret.cur = ret.preDst

-----------------------------------------------------------------------------
(* Can(), Cannot() and AvailableTransitions().                             *)

HasTableEntry(event, state) == eKey(event, state) \in DOMAIN transitions

\* C19 as stated: Can(event) is true if and only if the table has an entry for
\* (event, Current()) and no async transition is pending, and Cannot(event) is
\* its negation.
C19_Original ==
    ret.op = "Can"
    => (/\ ret.res = "true" <=> (HasTableEntry(ret.event, ret.pre) /\ ~ret.preAsync)
        /\ ret.arg = "true" <=> ret.res = "false")

\* C19, amended: Can(event) is true if and only if the table has an entry for
\* (event, Current()) and no transition closure is stored in the machine: none
\* deferred by an AsyncError, none staged by a synchronous Event() that is
\* between its before phase and its commit, and none left behind by an Event()
\* that found its context cancelled.  Cannot(event) is its negation.
C19_Amended ==
    ret.op = "Can"
    => (/\ ret.res = "true" <=> (HasTableEntry(ret.event, ret.pre) /\ ~ret.preTr)
        /\ ret.arg = "true" <=> ret.res = "false"
        /\ ret.preTr <=>
              \/ ret.preAsync
              \/ \E t \in Threads : \E f \in Frames(t) :
                    /\ f.op = "Event" /\ f.id = transition.id
                    /\ f.pc \in {"leave1", "leave2", "runlock", "do", "commit",
                                 "ret", "retRLock"}
              \/ StaleClosure)

\* Can("run") returned false in state start while the Event() call of another
\* goroutine was in its leave phase
C19_Witness ==
    /\ ret.op = "Can"
    /\ ret.res = "false"
    /\ HasTableEntry(ret.event, ret.pre)
    /\ ~ret.preAsync
    /\ \E t \in Threads : stack[t] # <<>> /\ top(t).op = "Event"
                          /\ top(t).pc \in {"leave1", "leave2"} /\ top(t).inh

\* C20: AvailableTransitions() returns each event that has a table entry from
\* Current() exactly once, and no other, whether or not a transition is pending.
C20_AvailableTransitions ==
    ret.op = "AvailableTransitions"
    => LET expected == {e \in EventNames : HasTableEntry(e, ret.pre)} IN
       /\ {ret.avail[i] : i \in 1..Len(ret.avail)} = expected
       /\ Len(ret.avail) = Cardinality(expected)

\* AvailableTransitions() returned two events while an async transition was pending
C20_Witness ==
    /\ ret.op = "AvailableTransitions"
    /\ ret.preAsync
    /\ Len(ret.avail) = 2
    /\ ret.avail[1] # ret.avail[2]

-----------------------------------------------------------------------------
(* SetState(), errors set by callbacks, calls made by callbacks.           *)

\* C21: the step in which SetState(s) returns makes f.current s, whether or not s
\* is a state of the table, invokes no callback and leaves the table, the
\* callbacks and f.transition as they were; an Event() call made right after it
\* with nothing pending is looked up with s as its source state.
C21_SetState ==
    [][/\ ret'.op = "SetState"
          => (/\ current' = ret'.arg
              /\ ret'.log = <<>>
              /\ \A t \in Threads : \A i \in 1..Len(stack'[t]) :
                    stack'[t][i].log = stack[t][i].log
              /\ transitions' = transitions
              /\ callbacks' = callbacks
              /\ transition' = transition)
       /\ (ret'.op = "Event" /\ ret'.setTo # None /\ ~ret'.preTr)
          => IF HasEntry(ret'.event, ret'.setTo)
             THEN /\ ret'.src = ret'.setTo
                  /\ ret'.dst = Entry(ret'.event, ret'.setTo)
                  /\ ret'.path # "miss"
             ELSE /\ ret'.path = "miss"
                  /\ ret'.res = "InvalidEventError" => ret'.resState = ret'.setTo
                  /\ ret'.cur = ret'.setTo]_vars

\* the machine was forced into a state absent from the table, and the Event()
\* call that followed was rejected in that state
C21_Witness ==
    /\ ret.op = "Event"
    /\ ret.setTo = "limbo"
    /\ ret.pre = "limbo"
    /\ ret.res = "InvalidEventError"
    /\ ret.resState = "limbo"

\* the callbacks registered for a state-changing transition of event from src
AllKeys(event, src, dst) ==
    Registered(beforeKeys(event) \o leaveKeys(src) \o enterKeys(dst) \o afterKeys(event))

\* C22 as stated: when no callback of an Event() call for a state-changing entry
\* calls Cancel() or Async(), the transition commits, every registered callback
\* runs, and Event() returns the value stored in e.Err last, nil if none was.
C22_Original ==
    (/\ ret.op = "Event"
     /\ ~ret.preTr
     /\ HasEntry(ret.event, ret.pre)
     /\ Entry(ret.event, ret.pre) # ret.pre
     /\ ret.ops \cap {"cancel", "asyncLeave", "asyncBefore"} = {})
    => (/\ ret.path = "committed"
        /\ ret.log = AllKeys(ret.event, ret.pre, Entry(ret.event, ret.pre))
        /\ ret.resErr = ret.lastErr
        /\ ret.res = IF ret.lastErr = "nil" THEN "nil" ELSE "err")

\* C22, amended: as C22, provided the context passed to Event() is not cancelled
\* when the closure runs.
C22_Amended ==
    (/\ ret.op = "Event"
     /\ ~ret.preTr
     /\ HasEntry(ret.event, ret.pre)
     /\ Entry(ret.event, ret.pre) # ret.pre
     /\ ret.ops \cap {"cancel", "asyncLeave", "asyncBefore"} = {}
     /\ ~ret.ctxErr)
    => (/\ ret.path = "committed"
        /\ ret.log = AllKeys(ret.event, ret.pre, Entry(ret.event, ret.pre))
        /\ ret.resErr = ret.lastErr
        /\ ret.res = IF ret.lastErr = "nil" THEN "nil" ELSE "err")

\* a callback stored an error and nothing else, the transition committed, all
\* eight callbacks ran and Event() returned that error
C22_Witness ==
    /\ ret.op = "Event"
    /\ ret.path = "committed"
    /\ ret.ops = {"err"}
    /\ Len(ret.log) = 8
    /\ ret.res = "err"
    /\ ret.resErr \in ErrVals
    /\ ret.cur = ret.dst

\* C23: when an after callback of an Event() call for an entry whose destination
\* is the current state (flag off) calls Event() for a state-changing entry, and
\* that call is not cancelled, deferred or made with a cancelled context, the
\* nested call commits, and the outer call returns NoTransitionError with
\* f.current the destination of the nested call.
C23_NestedAfterSelf ==
    (/\ ret.op = "Event"
     /\ ~ret.preTr
     /\ HasEntry(ret.event, ret.pre)
     /\ Entry(ret.event, ret.pre) = ret.pre
     /\ ~processNoTransitionStates
     /\ ret.child.op = "Event"
     /\ ~ret.child.preTr
     /\ HasEntry(ret.child.event, ret.child.pre)
     /\ Entry(ret.child.event, ret.child.pre) # ret.child.pre
     /\ ret.child.ops \cap {"cancel", "asyncLeave", "asyncBefore", "call"} = {}
     /\ ~ret.child.ctxErr)
    => (/\ ret.child.path = "committed"
        /\ ret.child.res \in {"nil", "err"}
        /\ ret.res = "NoTransitionError"
        /\ ret.cur = Entry(ret.child.event, ret.child.pre))

\* "stay" was fired in "start", an after callback fired "run", and the outer call
\* returned NoTransitionError with the machine in "end"
C23_Witness ==
    /\ ret.op = "Event"
    /\ ret.event = "stay"
    /\ ret.pre = "start"
    /\ ret.child.op = "Event"
    /\ ret.child.event = "run"
    /\ ret.child.path = "committed"
    /\ ret.res = "NoTransitionError"
    /\ ret.cur = "end"

-----------------------------------------------------------------------------
(* uncancelContext and the validation of callbacks.                        *)

\* C24: the context made by uncancelContext(ctx) is not done and has no error
\* while its own cancel function was not called, whether ctx was cancelled
\* before the call, after it or not at all; its Value() is that of ctx; once its
\* cancel function is called it is done with the error Canceled; and calling
\* that function does not make ctx done.
C24_Uncancel ==
    [][/\ uctx'.made
          => (/\ ~uctx'.cancelled => (~ctx_Done' /\ ctx_Err' = "nil")
              /\ uctx'.cancelled => (ctx_Done' /\ ctx_Err' = "Canceled")
              /\ \A key \in CtxKeys : ctx_Value(key)' = uctx'.vals[key]
              /\ uctx'.vals = uctx.vals)
       /\ (uctx'.cancelled /\ ~uctx.cancelled) => uctx'.done = uctx.done]_vars

\* a context with a value was cancelled before uncancelContext was called on it,
\* and the context made of it was cancelled afterwards
C24_Witness ==
    /\ uctx.made
    /\ uctx.doneAtCall
    /\ uctx.cancelled
    /\ uctx.vals["key1"] = "value1"

-----------------------------------------------------------------------------
(* Internal errors, locks, the state seen by callbacks.                    *)

\* C25: no Event() call returns InternalError, whatever Event(), Transition(),
\* SetState() and Can() calls of another goroutine run between its steps: the
\* closure it stored is still stored when it calls doTransition.
C25_NoInternalError ==
    /\ ret.op = "Event" => (ret.res # "InternalError" /\ ret.path # "nopending")
    /\ \A t \in Threads : \A i \in 1..Len(stack[t]) :
          (stack[t][i].op = "Event" /\ stack[t][i].pc = "do")
          => (transition.set /\ transition.id = stack[t][i].id)

\* an Event() call has released the read lock and is about to call doTransition
\* while a SetState() call of the other goroutine has just returned
C25_Witness ==
    /\ ret.op = "SetState"
    /\ \E t \in Threads :
          /\ stack[t] # <<>>
          /\ top(t).op = "Event"
          /\ top(t).pc = "do"
          /\ transition.id = top(t).id

\* the bindings that C26 lists as accepted
Accepted(c) ==
    \/ c.When \in {BeforeEvent, AfterEvent} /\ c.Event # zeroEvent /\ c.State = zeroState
    \/ c.When \in {EnterState, LeaveState} /\ c.State # zeroState /\ c.Event = zeroEvent
    \/ /\ c.When \in {BeforeAllEvents, AfterAllEvents, EnterAllStates, LeaveAllStates}
       /\ c.Event = zeroEvent
       /\ c.State = zeroState

\* C26: Callback.validate() returns nil exactly for BeforeEvent/AfterEvent with an
\* event and no state, EnterState/LeaveState with a state and no event, and the
\* four *All* categories with neither, and an error for every other binding,
\* those of an unknown category included; Callbacks.validate() returns an error
\* exactly when validate() of one of its bindings does.
C26_Validate ==
    cbs.err # "unset"
    => (/\ \A i \in 1..Len(cbs.cs) : (cbs.each[i] = "nil") <=> Accepted(cbs.cs[i])
        /\ (cbs.err # "nil") <=> (\E i \in 1..Len(cbs.cs) : cbs.each[i] # "nil"))

\* a Callbacks value whose first binding is accepted and whose second binding,
\* a BeforeEvent with an event and a state, is not, was rejected
C26_Witness ==
    /\ Len(cbs.cs) = 2
    /\ Len(cbs.each) = 2
    /\ cbs.each[1] = "nil"
    /\ cbs.cs[2] = [When |-> BeforeEvent, Event |-> "run", State |-> "start"]
    /\ cbs.each[2] = "given but state specified"
    /\ cbs.err = "given but state specified"

\* both locks are free
LocksFree ==
    /\ ~eventMu
    /\ stateMu.readers = 0
    /\ ~stateMu.writer
    /\ stateMu.waiting = 0

\* the part of C27 that holds for any number of goroutines
NoFaultAndFreeWhenIdle ==
    /\ ~fatal
    /\ Idle => LocksFree

\* C27: eventMu is never unlocked while it is not locked; an Event() or
\* Transition() call that returns, from the top level or from a callback of a
\* call that holds no lock at that point, leaves eventMu and stateMu free,
\* whatever path it took; and both locks are free whenever no call is executing.
C27_LockBalance ==
    /\ NoFaultAndFreeWhenIdle
    /\ ret.op \in {"Event", "Transition"} => LocksFree

\* an Event() call took the no-transition branch, an after callback of it called
\* Event() or Transition(), and both calls have returned
C27_Witness ==
    /\ ret.op = "Event"
    /\ ret.depth = 1
    /\ ret.path = "notransition"
    /\ ret.child.op \in {"Event", "Transition"}
    /\ Idle
    /\ LocksFree

\* the frame of goroutine t is inside a callback of the given positions, and no
\* callback of the call has called Event(), Transition() or SetState() so far
Inside(t, pcs) ==
    /\ stack[t] # <<>>
    /\ top(t).inh
    /\ top(t).pc \in pcs
    /\ "call" \notin top(t).ops

\* C28: with one goroutine using the machine, f.current is the source of the
\* transition while one of its before or leave callbacks runs, and its
\* destination while one of its enter callbacks runs, as long as no callback of
\* the call has called the machine.
C28_CommitPoint ==
    \A t \in Threads :
        /\ Inside(t, {"before1", "before2", "leave1", "leave2"})
           => (current = top(t).src /\ current = top(t).pre)
        /\ Inside(t, {"enter1", "enter2"}) => current = top(t).dst

\* an enter callback of a state-changing transition runs and finds the machine
\* in the destination
C28_Witness ==
    \E t \in Threads :
        /\ Inside(t, {"enter1", "enter2"})
        /\ top(t).src # top(t).dst
        /\ Len(top(t).log) >= 3
        /\ current = top(t).dst

-----------------------------------------------------------------------------
(* The callbacks of a phase.                                               *)

\* the callback keys of the log that are bound to a named state to enter
SpecificEnter(log) ==
    {log[i] : i \in {j \in 1..Len(log) :
                        /\ log[j].callbackType = callbackEnterState
                        /\ log[j].target # ""}}

\* C29: a call that has committed a transition has invoked, of the callbacks
\* bound to entering a named state, the one of the transition's destination if it
\* is registered, and no other, whatever the other goroutine did in between.
C29_EnterOwnDestination ==
    (ret.op \in {"Event", "Transition"} /\ ret.path \in {"committed", "completed"})
    => SpecificEnter(ret.log) = {cKey(ret.dst, callbackEnterState)} \cap callbacks

\* the callback keys of the sequence log
Invoked(log) == {log[i] : i \in 1..Len(log)}

\* of each phase of the transition (event, src, dst), both callbacks were invoked
\* if both are registered
BothOfEachPhase(event, src, dst, log) ==
    \A keys \in {beforeKeys(event), leaveKeys(src), enterKeys(dst), afterKeys(event)} :
        (keys[1] \in callbacks /\ keys[2] \in callbacks)
        => (keys[1] \in Invoked(log) /\ keys[2] \in Invoked(log))

\* C30: when a transition has committed, in Event() or in the Transition() that
\* completes a deferred one, the callbacks invoked for it by these calls include,
\* for each phase with a specific and a generic callback registered, both; so
\* leave_state was invoked although leave_<src> called Async().
C30_BothHandlers ==
    /\ (ret.op = "Event" /\ ret.path = "committed")
       => BothOfEachPhase(ret.event, ret.src, ret.dst, ret.log)
    /\ (ret.op = "Transition" /\ ret.path = "completed")
       => BothOfEachPhase(ret.event, ret.src, ret.dst, ret.elog \o ret.log)

-----------------------------------------------------------------------------
(* Completion of a deferred transition.                                    *)

\* goroutine t takes the step that writes f.current in the closure
Committing(t) ==
    /\ stack[t] # <<>>
    /\ Len(stack'[t]) = Len(stack[t])
    /\ top(t).pc = "commit"
    /\ stack'[t][Len(stack[t])].pc = "enter1"

\* every commit consumes the closure that is stored, so no closure is run twice;
\* a Transition() that completed a deferred transition ran each registered enter
\* and after callback once and leaves nothing outstanding
CompletedOnce ==
    /\ \A t \in Threads :
          Committing(t) => (transition.set /\ transition.id = top(t).eid /\ ~transition'.set)
    /\ (ret'.op = "Transition" /\ ret'.path = "completed")
       => (/\ outstanding /\ ~outstanding'
           /\ \A i, j \in 1..Len(ret'.log) : ret'.log[i] = ret'.log[j] => i = j
           /\ \A k \in Invoked(Registered(afterKeys(ret'.event))) : k \in Invoked(ret'.log)
           /\ cKey("", callbackEnterState) \in callbacks
              => cKey("", callbackEnterState) \in Invoked(ret'.log))

\* what C31 says of the Transition() calls that were made with a deferred closure
\* stored, leaving out the closures that an Event() call which found its context
\* cancelled left behind
AtMostOnceApartFromStale ==
    [][/\ CompletedOnce
       /\ (ret'.op = "Transition" /\ ret'.res # "NotInTransitionError" /\ ret'.preAsync)
          => outstanding]_vars

\* C31: a deferred transition is completed at most once, with its enter and after
\* callbacks run once, also when two goroutines call Transition() for it; and a
\* Transition() call returns NotInTransitionError unless an Event() returned
\* AsyncError and no Transition() has completed that transition since.
C31_AtMostOnce ==
    [][/\ CompletedOnce
       /\ (ret'.op = "Transition" /\ ret'.res # "NotInTransitionError") => outstanding]_vars

-----------------------------------------------------------------------------
(* Current() in callbacks.                                                 *)

\* the Current() call of goroutine t waits for the read lock behind a writer that
\* waits for a read lock held by the Event() call whose callback made the call
CurrentStuck(t) ==
    /\ stack[t] # <<>>
    /\ top(t).op = "Current"
    /\ top(t).pc = "rlock"
    /\ ~stateMu.writer
    /\ stateMu.waiting > 0
    /\ \E i \in 1..(Len(stack[t]) - 1) : stack[t][i].rheld
    /\ stateMu.readers = Cardinality({i \in 1..(Len(stack[t]) - 1) : stack[t][i].rheld})

\* C32: a Current() call made by a callback is never in a wait that cannot end,
\* whatever Current(), Can() and SetState() calls the other goroutine makes.
C32_CurrentReturns == \A t \in Threads : ~CurrentStuck(t)

-----------------------------------------------------------------------------
(* Panics in callbacks.                                                    *)

\* a call in which a callback panicked runs nothing but its deferred calls
Unwinding(f) == f.res = "panic" => (f.pc \in {"ret", "retRLock"} /\ ~f.inh)

\* C33: a panic of a callback of any phase reaches the caller of Event() or
\* Transition(): the call runs no further callback and returns the panic, also
\* through the callback of an enclosing call; no lock is unlocked twice on the
\* way, and once every call has returned neither eventMu nor stateMu is held.
C33_PanicPropagates ==
    /\ ~fatal
    /\ \A t \in Threads : \A i \in 1..Len(stack[t]) : Unwinding(stack[t][i])
    /\ (ret.op \in {"Event", "Transition"} /\ ret.res = "panic" /\ ret.depth > 1)
          => \E t \in Threads : stack[t] # <<>> /\ top(t).res = "panic"
    /\ Idle => LocksFree

\* Event() returned a panic of an enter or after callback, raised after the
\* closure released eventMu and Event() released its read lock, and no call is left
C33_Witness ==
    /\ ret.op = "Event"
    /\ ret.res = "panic"
    /\ ret.path = "committed"
    /\ ret.unlocked
    /\ Idle

-----------------------------------------------------------------------------
(* The error of CanceledError.                                             *)

\* Event() returned CanceledError from the top level
CanceledReturn == ret.op = "Event" /\ ret.res = "CanceledError"

\* C34 as stated: CanceledError carries the error given to Cancel(err) when one was
\* given, and otherwise the value a callback assigned to e.Err, or nil.
C34_Original ==
    CanceledReturn =>
        ret.resErr = IF ret.cancelArg # None THEN ret.cancelArg ELSE ret.setErr

\* C34: CanceledError carries the error given to Cancel(err) when one was given
\* and no callback assigned e.Err after that call; otherwise it carries the value
\* a callback assigned to e.Err last, or nil when none did.
C34_CanceledErr ==
    CanceledReturn =>
        ret.resErr = IF ret.cancelArg # None /\ ~ret.setAfter THEN ret.cancelArg
                     ELSE ret.setErr

\* Cancel(err) overwrote a different error that a callback had assigned before
C34_Witness ==
    /\ CanceledReturn
    /\ ret.cancelArg # None
    /\ ret.setErr \notin {"nil", ret.cancelArg}
    /\ ~ret.setAfter
    /\ ret.resErr = ret.cancelArg

-----------------------------------------------------------------------------
(* The state a transition is applied from.                                 *)

\* C35: when no goroutine calls SetState(), every write of f.current by the
\* closure, in Event() or in Transition(), is made while f.current is the source
\* recorded for the transition, and the table maps (event, source) to the
\* destination written, whatever the interleaving of the two goroutines' calls.
C35_NoStaleSource ==
    [][\A t \in Threads :
          Committing(t) => (/\ current = top(t).src
                            /\ HasTableEntry(top(t).event, top(t).src)
                            /\ transitions[eKey(top(t).event, top(t).src)] = top(t).dst
                            /\ current' = top(t).dst)]_vars

\* Transition() has applied the deferred run while the other goroutine is inside an
\* Event() call
C35_Witness ==
    \E t, u \in Threads :
        /\ t # u
        /\ stack[t] # <<>> /\ stack[u] # <<>>
        /\ top(t).op = "Transition"
        /\ top(t).pc = "enter1"
        /\ top(t).src = "start"
        /\ current = "end"
        /\ top(u).op = "Event"

-----------------------------------------------------------------------------
(* The states a machine can be in.                                         *)

\* state is the destination of an entry of the table
IsDestination(state) == \E ekey \in DOMAIN transitions : transitions[ekey] = state

\* C36: when SetState() is never called, f.current is the initial state passed to
\* NewFSM or the destination of an entry of the table, in every reachable state.
C36_ReachableStates == current = "start" \/ IsDestination(current)

\* the machine reached finished by two committed events, with a table in which
\* the initial state is no destination
C36_Witness ==
    /\ current = "finished"
    /\ ~IsDestination("start")
    /\ ret.op = "Event"
    /\ ret.path = "committed"

-----------------------------------------------------------------------------
(* SetState() while a deferred transition is pending.                      *)

\* SetState() returned, called while the closure of a deferred transition was stored
SetStatePending == ret.op = "SetState" /\ ret.preAsync

\* the call that returned was made right after such a SetState() call returned, and
\* its callbacks made no call of their own
AfterSetStatePending(op) ==
    /\ ret.op = op
    /\ ret.setTo # None
    /\ ret.preAsync
    /\ "call" \notin ret.ops

\* what SetState() does and what Event() returns while the transition is pending
C37_StillPending ==
    /\ SetStatePending => (transition.set /\ transition.async /\ current = ret.arg)
    /\ AfterSetStatePending("Event") =>
          (ret.res = "InTransitionError" /\ ret.log = <<>> /\ ret.cur = ret.setTo)

\* Transition() returned nil having written the staged destination
Completed == ret.res = "nil" /\ ret.path = "completed" /\ ret.cur = ret.dst

\* C37 as stated: SetState(s) leaves a pending deferred transition stored, Event()
\* keeps returning InTransitionError, and the Transition() call that follows
\* writes the staged destination over s.
C37_Original ==
    /\ C37_StillPending
    /\ AfterSetStatePending("Transition") => Completed

\* C37: SetState(s) leaves a pending deferred transition stored, Event() keeps
\* returning InTransitionError, and the Transition() call that follows writes the
\* staged destination over s, unless the cancel function of the AsyncError was
\* called before it: then it returns nil and the state stays s.
C37_SetStatePending ==
    /\ C37_StillPending
    /\ AfterSetStatePending("Transition") =>
          IF ret.cctx THEN ret.res = "nil" /\ ret.path = "ctxdone" /\ ret.cur = ret.setTo
          ELSE Completed

\* Transition() completed the deferred run after SetState("limbo")
C37_Witness ==
    /\ AfterSetStatePending("Transition")
    /\ ret.setTo = "limbo"
    /\ ~ret.cctx
    /\ ret.dst = "end"
    /\ Completed

-----------------------------------------------------------------------------
(* Calls made by before and leave callbacks.                               *)

\* frame number i + 1 of goroutine t is an Event() or Transition() call made by a
\* before or leave callback of frame number i
NestedInEarly(t, i) ==
    /\ i + 1 <= Len(stack[t])
    /\ stack[t][i + 1].op \in {"Event", "Transition"}
    /\ stack[t][i].op = "Event"
    /\ earlyPhase(stack[t][i])

\* C38: an Event() or Transition() call made by a before or leave callback on its
\* own machine is at f.eventMu.Lock() in every state, with eventMu locked and the
\* enclosing Event() call, which locked it, still in that callback; no such call
\* ever returns.
C38_NestedEarlyBlocks ==
    /\ \A t \in Threads : \A i \in 1..Len(stack[t]) :
          NestedInEarly(t, i) => (/\ stack[t][i + 1].pc = "lock"
                                  /\ eventMu
                                  /\ stack[t][i].inh
                                  /\ ~stack[t][i].unlocked)
    /\ (ret.op \in {"Event", "Transition"} /\ ret.depth >= 2)
       => \A t \in active : Len(stack[t]) = ret.depth - 1 => ~earlyPhase(top(t))

\* a leave callback has called Transition(), which waits for eventMu
C38_Witness ==
    \E t \in Threads :
        /\ Len(stack[t]) = 2
        /\ NestedInEarly(t, 1)
        /\ stack[t][1].pc \in {"leave1", "leave2"}
        /\ stack[t][2].op = "Transition"
        /\ Blocked(stack[t][2])

-----------------------------------------------------------------------------
(* processNoTransitionStates.                                              *)

\* Event() returned, made with nothing stored for an entry of the table whose
\* destination is the state the machine was in
SelfEntryReturn ==
    /\ ret.op = "Event"
    /\ ~ret.preTr
    /\ HasEntry(ret.event, ret.pre)
    /\ Entry(ret.event, ret.pre) = ret.pre

\* the call ran every registered callback of the four phases and returned e.Err
FullSequence ==
    /\ ret.path = "committed"
    /\ ret.log = Registered(beforeKeys(ret.event) \o leaveKeys(ret.pre)
                            \o enterKeys(ret.pre) \o afterKeys(ret.event))
    /\ ret.res = (IF ret.Err = "nil" THEN "nil" ELSE "err")
    /\ ret.resErr = ret.Err

\* the call returned NoTransitionError having run the before and after callbacks
BeforeAndAfterOnly ==
    /\ ret.res = "NoTransitionError"
    /\ ret.log = Registered(beforeKeys(ret.event) \o afterKeys(ret.event))

\* C39 as stated: with the flag on, Event() for an entry whose destination is the
\* current state runs the before, leave, enter and after callbacks around the
\* commit and returns e.Err; with the flag off it returns NoTransitionError and
\* runs the before and after callbacks only.
C39_Original ==
    SelfEntryReturn =>
        IF processNoTransitionStates THEN FullSequence ELSE BeforeAndAfterOnly

\* C39: as stated, with the flag on provided that no callback calls Cancel() or
\* Async() and the context of the call is not cancelled, and with the flag off
\* provided that no before callback calls Cancel().
C39_ProcessNoTransition ==
    SelfEntryReturn =>
        IF processNoTransitionStates
        THEN (ret.ops \cap {"cancel", "asyncLeave", "asyncBefore"} = {} /\ ~ret.ctxErr)
             => FullSequence
        ELSE "cancel" \notin ret.ops => BeforeAndAfterOnly

\* with the flag on, "stay" ran all eight callbacks in state start
C39_Witness ==
    /\ SelfEntryReturn
    /\ processNoTransitionStates
    /\ ret.event = "stay"
    /\ ret.cur = "start"
    /\ FullSequence
    /\ Len(ret.log) = 8

-----------------------------------------------------------------------------
(* The callback names of NewFSM.                                           *)

\* the events, and the source and destination states, of the table
TableEvents == {ekey[1] : ekey \in DOMAIN transitions}
TableStates == {ekey[2] : ekey \in DOMAIN transitions}
               \cup {transitions[ekey] : ekey \in DOMAIN transitions}

\* the rest of the names with the given prefix, but the name of the generic callback
Specific(prefix, generic) ==
    {n[2] : n \in {m \in callbackNames : m[1] = prefix /\ m[2] # generic}}

\* the key of the generic callback when its name was given
Generic(prefix, generic, callbackType) ==
    {cKey("", callbackType) : n \in {m \in callbackNames : m = <<prefix, generic>>}}

\* the keys that the names given to NewFSM stand for
NamedKeys ==
    {cKey(x, callbackBeforeEvent) : x \in Specific("before_", "event") \cap TableEvents}
    \cup {cKey(x, callbackAfterEvent) : x \in Specific("after_", "event") \cap TableEvents}
    \cup {cKey(x, callbackLeaveState) : x \in Specific("leave_", "state") \cap TableStates}
    \cup {cKey(x, callbackEnterState) : x \in Specific("enter_", "state") \cap TableStates}
    \cup Generic("before_", "event", callbackBeforeEvent)
    \cup Generic("leave_", "state", callbackLeaveState)
    \cup Generic("enter_", "state", callbackEnterState)
    \cup Generic("after_", "event", callbackAfterEvent)
    \cup {cKey(x, callbackEnterState) : x \in Specific("", "") \cap TableStates}
    \cup {cKey(x, callbackAfterEvent) :
             x \in (Specific("", "") \cap TableEvents) \ TableStates}

\* the callbacks a call has invoked are among the keys
InvokedAmong(log, keys) == \A i \in 1..Len(log) : log[i] \in keys

\* C40: the keys registered by NewFSM are those the given names stand for: a
\* before_ or after_ name of an event of the table, a leave_ or enter_ name of a
\* state of the table, the four generic names, a bare state name as enter_<state>
\* and a bare event name that is no state as after_<event>; any other name
\* registers nothing, and no call invokes a callback outside these keys.
C40_CallbackNames ==
    /\ callbacks = NamedKeys
    /\ InvokedAmong(ret.log, NamedKeys)
    /\ \A t \in Threads : \A i \in 1..Len(stack[t]) :
          InvokedAmong(stack[t][i].log, NamedKeys)

\* with the bare names end, run and nothing given, Event("end") committed and ran
\* no after callback, the name end standing for the state
C40_Witness ==
    /\ callbackNames = CallbacksShort
    /\ ret.op = "Event"
    /\ ret.event = "end"
    /\ ret.path = "committed"
    /\ cKey("end", callbackEnterState) \in callbacks
    /\ cKey("end", callbackAfterEvent) \notin callbacks
    /\ \A i \in 1..Len(ret.log) : ret.log[i].callbackType # callbackAfterEvent
====
